---------------------------- MODULE Spec2Model ----------------------------
(***************************************************************************)
(* A model of the presentation engine: the observable DataStore, the       *)
(* TaskScheduler with its ScheduledTask / AnimationTask, the click         *)
(* dispatch of the GestureDetector and the render task over the Context's  *)
(* unit collection, and the Unit with update, position binding to other    *)
(* units and to the Context's anchors, and deletion.                       *)
(*                                                                         *)
(* The parts are checked under their own specifications: SpecStore,        *)
(* SpecScheduler and SpecGesture start from Init; SpecPlacement, SpecBind  *)
(* and SpecScene start from InitScene, the context with its nine anchors,  *)
(* and differ in the calls their callers make.  SpecHitTest applies the    *)
(* default hit test to units and points drawn in InitHitTest; SpecTick     *)
(* runs loop passes over tasks whose callbacks remove and add tasks;       *)
(* SpecPointer sends press, release, move and leave events, long-press     *)
(* timers and runs of the hover-polling task to the GestureDetector, and   *)
(* SpecHover does so over units that are added, deleted, enabled and       *)
(* disabled.  SpecReentrant runs DataStore.set call by call with listeners *)
(* that call set themselves, SpecReentrantRun with the calls in progress   *)
(* going on to their end.  SpecLoop starts, stops and resumes the          *)
(* scheduler between frames, SpecReplace runs callbacks that add a task    *)
(* under a name in use, SpecDelete deletes units constructed with a name   *)
(* of their own, and SpecAnchors deletes anchors between two changes of    *)
(* the canvas size.                                                        *)
(***************************************************************************)
EXTENDS Integers, Sequences, FiniteSets, TLC

VARIABLES
    data,        \* DataStore._data: the own properties of the object, key -> value
    listeners,   \* DataStore._listeners: key -> list of callbacks, in push order
    calls,       \* history: the listener invocations <<fn, value>> of the last set
    lastOp,      \* history: the last store operation, its arguments and outcome
    written,     \* history: key -> the value of the most recent set(key, value)
    tasks,          \* TaskScheduler.tasks: the list of task objects
    running,        \* TaskScheduler.running
    now,            \* TaskScheduler.now: the timestamp of the last loop pass
    pausedChannels, \* TaskScheduler.pausedChannels
    clock,          \* performance.now(), the time source of the page
    pending,        \* number of loop callbacks requested from requestAnimationFrame
    trace,          \* history: what the loop did with each task of the last frame
    schedOp,        \* history: the add / addAnim / resume / stop call just made
    frozenAt,       \* history: task name -> page time at which a pause froze the task
    frozenNow,      \* history: task name -> TaskScheduler.now when that pause was made
    frozenBase,     \* history: task name -> its lastRun / totalPausedTime at that pause
    units,       \* Context._units: the list of unit objects
    zSorted,     \* Context.zSorted
    created,     \* history: how many units have been constructed by the callers
    clickAt,     \* history: the point of the click just dispatched, or << >>
    clicked,     \* history: the units whose onClick that click invoked, in order
    drawn,       \* history: what the render callback just did to the canvas, in order
    detached,    \* unit objects removed from Context._units that closures still hold
    binds,       \* how many updatePosition closures bindPositionRelativeTo has made
    canvas,      \* canvas.width and canvas.height
    sceneOp,     \* history: the unit / context operation just made
    isDragging,        \* GestureDetector._isDragging
    dragStart,         \* GestureDetector._dragStart: a point <<x, y>>, or << >> for null
    dragUnit,          \* GestureDetector._dragUnit: the name of the unit, or NoUnit
    longPressTimeout,  \* GestureDetector._longPressTimeout: a timer id, or 0 for null
    hoveredUnit,       \* GestureDetector._hoveredUnit: the name of the unit, or NoUnit
    lastMousePos,      \* GestureDetector._lastMousePos: a point, or << >> for null
    timers,            \* the timers of setTimeout that are neither run nor cleared
    timerIds,          \* how many timers setTimeout has made
    pressed,           \* history: the presses that hit a unit since the last mouseup / mouseleave
    handled,           \* history: the unit callbacks the last event invoked, in order
    gestOp,            \* history: the event or timer or task just run
    probeUnit,   \* the unit whose hitTest the callers try
    probeAt,     \* history: the point of the last hitTest call, or << >>
    probeHit,    \* history: what that call returned
    stack,     \* the calls of DataStore.set in progress, the innermost last
    events,    \* history: what the outermost set in progress or just over did, in order
    hovering   \* history: the units called onHover and not yet onMouseLeave

storeVars == <<data, listeners, calls, lastOp, written>>

schedVars == <<tasks, running, now, pausedChannels, clock, pending, trace, schedOp, frozenAt,
              frozenNow, frozenBase>>

gestureVars == <<units, zSorted, created, clickAt, clicked, drawn>>

sceneVars == <<detached, binds, canvas, sceneOp>>

pointerVars == <<isDragging, dragStart, dragUnit, longPressTimeout, hoveredUnit,
                 lastMousePos, timers, timerIds, pressed, handled, gestOp>>

probeVars == <<probeUnit, probeAt, probeHit>>

callVars == <<stack, events>>

hoverVars == <<hovering>>

vars == <<data, listeners, calls, lastOp, written,
          tasks, running, now, pausedChannels, clock, pending, trace, schedOp, frozenAt,
          frozenNow, frozenBase,
          units, zSorted, created, clickAt, clicked, drawn,
          detached, binds, canvas, sceneOp,
          isDragging, dragStart, dragUnit, longPressTimeout, hoveredUnit,
          lastMousePos, timers, timerIds, pressed, handled, gestOp,
          probeUnit, probeAt, probeHit,
          stack, events,
          hovering>>

(***************************************************************************)
(*                              DataStore                                  *)
(***************************************************************************)

\* The keys the callers use.
Keys == {"k1", "k2"}

\* JavaScript values, by name: two falsy values that are not nullish (0 and
\* false; the empty string takes the same branches), the two nullish values,
\* and one truthy value.
Values == {"zero", "false", "null", "undefined", "one"}

\* The callbacks handed to onChange: two that return, one that throws.
Callbacks == {"L1", "L2", "LThrow"}

\* Bound on the length of one key's listener list.
MaxListeners == 2

\* What a callback does when the store calls fn(value).
CallbackThrows(fn) == fn = "LThrow"

\* The comparison written with strict inequality, v !== null.
NotNullish_Strict(v) == v # "null"

\* v != null in JavaScript (loose inequality): false for null and undefined.
NotNullish(v) == v \notin {"null", "undefined"}

\* A read that falls back to a default value for a key without a property.
DataRead_Default(d, key) == IF key \in DOMAIN d THEN d[key] ELSE "zero"

\* this._data[key]: the own property, or undefined when there is none.
DataRead(d, key) == IF key \in DOMAIN d THEN d[key] ELSE "undefined"

\* this._listeners[key] || []
ListenersOf(ls, key) == IF key \in DOMAIN ls THEN ls[key] ELSE << >>

\* lst.filter(f => f !== fn)
RECURSIVE FilterOut(_, _)
FilterOut(lst, fn) ==
    IF lst = << >> THEN << >>
    ELSE IF Head(lst) = fn THEN FilterOut(Tail(lst), fn)
         ELSE <<Head(lst)>> \o FilterOut(Tail(lst), fn)

\* A notification loop that stops after its first callback.
ForEachListener_FirstOnly(lst, i, value, acc) ==
    IF Len(lst) = 0 THEN [calls |-> acc, threw |-> FALSE]
    ELSE [calls |-> Append(acc, <<lst[1], value>>), threw |-> CallbackThrows(lst[1])]

\* (this._listeners[key] || []).forEach(fn => { fn(value) }): the callbacks
\* are called in index order; nothing catches, so the first one that throws
\* ends the loop and the exception leaves set.
RECURSIVE ForEachListener(_, _, _, _)
ForEachListener(lst, i, value, acc) ==
    IF i > Len(lst) THEN [calls |-> acc, threw |-> FALSE]
    ELSE IF CallbackThrows(lst[i])
         THEN [calls |-> Append(acc, <<lst[i], value>>), threw |-> TRUE]
         ELSE ForEachListener(lst, i + 1, value, Append(acc, <<lst[i], value>>))

\* DataStore.set(key, value)
DataStore_set(key, value) ==
    LET r == ForEachListener(ListenersOf(listeners, key), 1, value, << >>)
    IN /\ data' = [k \in DOMAIN data \cup {key} |-> IF k = key THEN value ELSE data[k]]
       /\ calls' = r.calls
       /\ written' = [k \in DOMAIN written \cup {key} |-> IF k = key THEN value ELSE written[k]]
       /\ lastOp' = [op |-> "set", key |-> key, arg |-> value,
                     outcome |-> IF r.threw THEN "threw" ELSE "returned", ret |-> "-"]
       /\ UNCHANGED listeners
       /\ UNCHANGED <<schedVars, gestureVars, sceneVars, pointerVars, probeVars, callVars, hoverVars>>

\* DataStore.get(key)
DataStore_get(key) ==
    LET v == DataRead(data, key)
    IN /\ lastOp' = IF NotNullish(v)
                    THEN [op |-> "get", key |-> key, arg |-> "-", outcome |-> "returned", ret |-> v]
                    ELSE [op |-> "get", key |-> key, arg |-> "-", outcome |-> "threw", ret |-> "-"]
       /\ calls' = << >>
       /\ UNCHANGED <<data, listeners, written>>
       /\ UNCHANGED <<schedVars, gestureVars, sceneVars, pointerVars, probeVars, callVars, hoverVars>>

\* DataStore.onChange(key, fn)
DataStore_onChange(key, fn) ==
    /\ Len(ListenersOf(listeners, key)) < MaxListeners
    /\ listeners' = [k \in DOMAIN listeners \cup {key} |->
                        IF k = key THEN Append(ListenersOf(listeners, key), fn)
                        ELSE listeners[k]]
    /\ lastOp' = [op |-> "onChange", key |-> key, arg |-> fn, outcome |-> "returned", ret |-> "-"]
    /\ calls' = << >>
    /\ UNCHANGED <<data, written>>
    /\ UNCHANGED <<schedVars, gestureVars, sceneVars, pointerVars, probeVars, callVars, hoverVars>>

\* DataStore.removeOnChange(key, fn)
DataStore_removeOnChange(key, fn) ==
    /\ listeners' = IF key \in DOMAIN listeners
                    THEN [listeners EXCEPT ![key] = FilterOut(listeners[key], fn)]
                    ELSE listeners
    /\ lastOp' = [op |-> "removeOnChange", key |-> key, arg |-> fn, outcome |-> "returned", ret |-> "-"]
    /\ calls' = << >>
    /\ UNCHANGED <<data, written>>
    /\ UNCHANGED <<schedVars, gestureVars, sceneVars, pointerVars, probeVars, callVars, hoverVars>>

StoreNext ==
    \/ \E key \in Keys, value \in Values : DataStore_set(key, value)
    \/ \E key \in Keys : DataStore_get(key)
    \/ \E key \in Keys, fn \in Callbacks : DataStore_onChange(key, fn)
    \/ \E key \in Keys, fn \in Callbacks : DataStore_removeOnChange(key, fn)

(***************************************************************************)
(*              ScheduledTask, AnimationTask, TaskScheduler                *)
(***************************************************************************)

\* ScheduledTask.INFINITE
INFINITE == -1

\* pausedAt = null
NoTime == -1

\* Bound on the page clock.
MaxTime == 3

\* Bound on the number of loop callbacks waiting for a frame.
MaxPending == 2

\* The names and the channels the callers use.
TaskNames == {"a", "b"}
Channels == {"global", "x"}

\* The calls add(name, delay, repeat, fn, channels) the callers make.
AddCalls ==
    { <<"a", 2, INFINITE, "nop", {"global"}>>,
      <<"a", 2, 1, "throw", {"x"}>>,
      <<"b", 2, 1, "nop", {"x"}>>,
      <<"b", 2, INFINITE, "nop", {"global", "x"}>> }

\* The calls addAnim(name, startVal, endVal, curve, duration, fn, channels)
\* the callers make.
AddAnimCalls ==
    { <<"a", 0, 10, "linear", 2, "nop", {"x"}>>,
      <<"b", 0, 10, "linear", 2, "throw", {"global"}>> }

\* The callbacks handed to add / addAnim: one that returns, one that throws,
\* one that calls scheduler.remove("b") and one that calls
\* scheduler.add("b", 0, INFINITE, nop, ["x"]).
TaskCallbacks == {"nop", "throw", "removeB", "addB"}
TaskCallbackThrows(fn) == fn = "throw"

\* The calls add(name, delay, repeat, fn, channels) of the callers that try
\* callbacks which change the task list, and repeat counts 0, 1 and 2.
TickCalls ==
    { <<"a", 0, INFINITE, "removeB", {"global"}>>,
      <<"a", 0, INFINITE, "addB", {"global"}>>,
      <<"a", 0, 1, "nop", {"global"}>>,
      <<"b", 0, INFINITE, "nop", {"global"}>>,
      <<"b", 1, 2, "nop", {"global"}>>,
      <<"b", 0, 0, "nop", {"global"}>> }

\* The calls add(name, delay, repeat, fn, channels) of the callers that try
\* add("b", ...) from inside a callback: by a task before "b", and by "b"
\* itself on its only run.
ReplaceCalls ==
    { <<"a", 0, INFINITE, "addB", {"global"}>>,
      <<"a", 0, INFINITE, "nop", {"global"}>>,
      <<"b", 0, 1, "nop", {"global"}>>,
      <<"b", 0, 1, "addB", {"global"}>>,
      <<"b", 0, INFINITE, "nop", {"global"}>> }

\* new ScheduledTask(name, delay, repeat, fn, channels), built at time t
ScheduledTask(name, delay, repeat, fn, channels, t) ==
    [name |-> name, kind |-> "plain", delay |-> delay, repeat |-> repeat, fn |-> fn,
     remaining |-> repeat, lastRun |-> t, channels |-> channels,
     pausedAt |-> NoTime, totalPausedTime |-> 0,
     startVal |-> 0, endVal |-> 0, curve |-> "none", duration |-> 0, animStart |-> 0]

\* new AnimationTask(name, startVal, endVal, curve, duration, fn, channels), built at time t
AnimationTask(name, startVal, endVal, curve, duration, fn, channels, t) ==
    [name |-> name, kind |-> "anim", delay |-> 0, repeat |-> INFINITE, fn |-> fn,
     remaining |-> INFINITE, lastRun |-> t, channels |-> channels,
     pausedAt |-> NoTime, totalPausedTime |-> 0,
     startVal |-> startVal, endVal |-> endVal, curve |-> curve, duration |-> duration,
     animStart |-> t]

\* shouldRun(now)
shouldRun(task, t) == t - task.lastRun >= task.delay

Min(a, b) == IF a < b THEN a ELSE b
Max(a, b) == IF a > b THEN a ELSE b

\* AnimationTask.run, the value handed to fn, as the exact fraction <<n, d>>:
\* rawProgress = min(1, max(0, elapsed / duration)), the linear curve t => t,
\* value = startVal + (endVal - startVal) * curvedProgress.  duration > 0.
AnimValue(task, elapsed) ==
    LET clamped == Min(task.duration, Max(0, elapsed))
    IN <<task.startVal * task.duration + (task.endVal - task.startVal) * clamped,
         task.duration>>

\* An animation that is still active at elapsed = duration.
AnimStillActive_Inclusive(task, elapsed) == elapsed <= task.duration

\* AnimationTask.run: return elapsed < this.duration
AnimStillActive(task, elapsed) == elapsed < task.duration

\* task.run(now) of either class: the task object after the call, whether it
\* is still active, whether fn threw (then nothing after the call of fn ran),
\* and what fn received.
TaskRun(task, t) ==
    IF task.kind = "anim"
    THEN LET elapsed == t - task.animStart - task.totalPausedTime
         IN IF TaskCallbackThrows(task.fn)
            THEN [task |-> task, stillActive |-> TRUE, threw |-> TRUE,
                  value |-> AnimValue(task, elapsed), elapsed |-> elapsed]
            ELSE [task |-> [task EXCEPT !.lastRun = t],
                  stillActive |-> AnimStillActive(task, elapsed), threw |-> FALSE,
                  value |-> AnimValue(task, elapsed), elapsed |-> elapsed]
    ELSE IF TaskCallbackThrows(task.fn)
         THEN [task |-> task, stillActive |-> TRUE, threw |-> TRUE,
               value |-> <<0, 1>>, elapsed |-> 0]
         ELSE LET rem == IF task.repeat # INFINITE THEN task.remaining - 1
                         ELSE task.remaining
              IN [task |-> [task EXCEPT !.lastRun = t, !.remaining = rem],
                  stillActive |-> rem # 0, threw |-> FALSE,
                  value |-> <<0, 1>>, elapsed |-> 0]

\* A filter that keeps every task.
RemoveByName_KeepAll(ts, name) == ts

\* this.tasks.filter(task => task.name !== name)
RECURSIVE RemoveByName(_, _)
RemoveByName(ts, name) ==
    IF ts = << >> THEN << >>
    ELSE IF Head(ts).name = name THEN RemoveByName(Tail(ts), name)
         ELSE <<Head(ts)>> \o RemoveByName(Tail(ts), name)

\* A filter that drops only the tasks on the one channel and no other.
RemoveByChannel_Only(ts, channel) == SelectSeq(ts, LAMBDA t : t.channels # {channel})

\* this.tasks.filter(t => !t.channels.includes(channel))
RECURSIVE RemoveByChannel(_, _)
RemoveByChannel(ts, channel) ==
    IF ts = << >> THEN << >>
    ELSE IF channel \in Head(ts).channels THEN RemoveByChannel(Tail(ts), channel)
         ELSE <<Head(ts)>> \o RemoveByChannel(Tail(ts), channel)

\* this.fn() of a task, called at time t: what it leaves of the live list ts.
CallbackEffect(fn, ts, t) ==
    CASE fn = "removeB" -> RemoveByName(ts, "b")
      [] fn = "addB" -> Append(RemoveByName(ts, "b"),
                               ScheduledTask("b", 0, INFINITE, "nop", {"x"}, t))
      [] OTHER -> ts

\* A pass that looks every task up by name in the live list.
CallbackGone_None(fn, ts) == {}

\* The names whose object this.fn() takes off the live list ts.
CallbackGone(fn, ts) ==
    IF fn \in {"removeB", "addB"} THEN {"b"} \cap {ts[j].name : j \in 1..Len(ts)} ELSE {}

\* The task object named like obj in the list, replaced by obj (the loop
\* mutates the object it holds, which is the object in the list).
StoreBack(ts, obj) == [i \in 1..Len(ts) |-> IF ts[i].name = obj.name THEN obj ELSE ts[i]]

\* A skip test that wants every channel of the task paused.
ChannelPaused_Every(task, paused) == task.channels \subseteq paused

\* task.channels.some(ch => this.pausedChannels.has(ch))
ChannelPaused(task, paused) == task.channels \cap paused # {}

\* for (let task of currentTasks) { ... } of one loop pass at timestamp t,
\* from index i on; st carries the live task list, the names whose object a
\* callback of this pass took off the list (the snapshot still holds the
\* object) and the history of the pass.  Nothing catches: a callback that
\* throws ends the pass.
RECURSIVE LoopBody(_, _, _, _, _)
LoopBody(currentTasks, i, t, paused, st) ==
    IF i > Len(currentTasks) THEN st
    ELSE
      LET held == currentTasks[i]
          live == {j \in 1..Len(st.tasks) : st.tasks[j].name = held.name}
          inList == held.name \notin st.gone /\ live # {}
          task == IF inList THEN st.tasks[CHOOSE j \in live : TRUE] ELSE held
          entry == [name |-> task.name, kind |-> task.kind, channels |-> task.channels,
                    delay |-> task.delay, lastRun |-> task.lastRun,
                    duration |-> task.duration, startVal |-> task.startVal,
                    endVal |-> task.endVal, at |-> t,
                    repeat |-> task.repeat, remaining |-> task.remaining,
                    did |-> "skipped", value |-> <<0, 1>>, elapsed |-> 0]
      IN IF ChannelPaused(task, paused)
         THEN LoopBody(currentTasks, i + 1, t, paused,
                       [st EXCEPT !.trace = Append(@, entry)])
         ELSE IF ~shouldRun(task, t)
         THEN LoopBody(currentTasks, i + 1, t, paused,
                       [st EXCEPT !.trace = Append(@, [entry EXCEPT !.did = "notDue"])])
         ELSE
           LET r == TaskRun(task, t)
               e == [entry EXCEPT !.did = IF r.threw THEN "threw" ELSE "ran",
                                  !.value = r.value, !.elapsed = r.elapsed,
                                  !.remaining = r.task.remaining]
               gone == st.gone \cup CallbackGone(task.fn, st.tasks)
               called == CallbackEffect(task.fn, st.tasks, t)
               assigned == IF inList /\ task.name \notin gone
                           THEN StoreBack(called, r.task) ELSE called
           IN IF r.threw
              THEN [st EXCEPT !.trace = Append(@, e), !.threw = TRUE]
              ELSE LoopBody(currentTasks, i + 1, t, paused,
                     [st EXCEPT !.trace = Append(@, e),
                                !.gone = gone,
                                !.tasks = IF r.stillActive
                                          THEN assigned
                                          ELSE RemoveByName(assigned, task.name)])

\* The k loop callbacks of one frame, run one after the other with the frame's
\* timestamp t.  Each snapshots this.tasks, runs the pass and, unless a
\* callback threw, requests the next frame (running stays true in a pass).
RECURSIVE RunLoops(_, _, _, _)
RunLoops(k, t, paused, st) ==
    IF k = 0 THEN st
    ELSE LET r == LoopBody(st.tasks, 1, t, paused,
                           [tasks |-> st.tasks, trace |-> st.trace, threw |-> FALSE,
                            gone |-> {}])
         IN RunLoops(k - 1, t, paused,
                     [tasks |-> r.tasks, trace |-> r.trace,
                      requested |-> IF r.threw THEN st.requested ELSE st.requested + 1,
                      threw |-> st.threw \/ r.threw])

NoOp == [op |-> "none"]

NeverFrozen == [n \in TaskNames |-> NoTime]

\* Time passes on the page while no loop callback waits for a frame (with
\* one waiting, the next frame is what moves the clock on).
AdvanceTime ==
    /\ pending = 0
    /\ clock < MaxTime
    /\ clock' = clock + 1
    /\ trace' = << >>
    /\ schedOp' = NoOp
    /\ UNCHANGED <<tasks, running, now, pausedChannels, pending, frozenAt, frozenNow, frozenBase>>
    /\ UNCHANGED <<storeVars, gestureVars, sceneVars, pointerVars, probeVars, callVars, hoverVars>>

\* TaskScheduler.add(name, delay, repeat, fn, channels)
TaskScheduler_add(name, delay, repeat, fn, channels) ==
    /\ tasks' = Append(RemoveByName(tasks, name),
                       ScheduledTask(name, delay, repeat, fn, channels, clock))
    /\ schedOp' = [op |-> "add", name |-> name, delay |-> delay, repeat |-> repeat,
                   fn |-> fn, channels |-> channels,
                   replaced |-> \E i \in 1..Len(tasks) : tasks[i].name = name]
    /\ frozenAt' = [frozenAt EXCEPT ![name] = NoTime]
    /\ frozenNow' = [frozenNow EXCEPT ![name] = NoTime]
    /\ frozenBase' = [frozenBase EXCEPT ![name] = NoTime]
    /\ trace' = << >>
    /\ UNCHANGED <<running, now, pausedChannels, clock, pending>>
    /\ UNCHANGED <<storeVars, gestureVars, sceneVars, pointerVars, probeVars, callVars, hoverVars>>

\* TaskScheduler.addAnim(name, startVal, endVal, curve, duration, fn, channels)
TaskScheduler_addAnim(name, startVal, endVal, curve, duration, fn, channels) ==
    /\ tasks' = Append(RemoveByName(tasks, name),
                       AnimationTask(name, startVal, endVal, curve, duration, fn, channels, clock))
    /\ schedOp' = [op |-> "addAnim", name |-> name, startVal |-> startVal, endVal |-> endVal,
                   duration |-> duration, fn |-> fn, channels |-> channels,
                   replaced |-> \E i \in 1..Len(tasks) : tasks[i].name = name]
    /\ frozenAt' = [frozenAt EXCEPT ![name] = NoTime]
    /\ frozenNow' = [frozenNow EXCEPT ![name] = NoTime]
    /\ frozenBase' = [frozenBase EXCEPT ![name] = NoTime]
    /\ trace' = << >>
    /\ UNCHANGED <<running, now, pausedChannels, clock, pending>>
    /\ UNCHANGED <<storeVars, gestureVars, sceneVars, pointerVars, probeVars, callVars, hoverVars>>

\* TaskScheduler.remove(name)
TaskScheduler_remove(name) ==
    /\ tasks' = RemoveByName(tasks, name)
    /\ schedOp' = NoOp
    /\ frozenAt' = [frozenAt EXCEPT ![name] = NoTime]
    /\ frozenNow' = [frozenNow EXCEPT ![name] = NoTime]
    /\ frozenBase' = [frozenBase EXCEPT ![name] = NoTime]
    /\ trace' = << >>
    /\ UNCHANGED <<running, now, pausedChannels, clock, pending>>
    /\ UNCHANGED <<storeVars, gestureVars, sceneVars, pointerVars, probeVars, callVars, hoverVars>>

\* TaskScheduler.start()
TaskScheduler_start ==
    /\ running \/ pending < MaxPending
    /\ IF running
       THEN UNCHANGED <<running, pending>>
       ELSE running' = TRUE /\ pending' = pending + 1
    /\ schedOp' = NoOp
    /\ trace' = << >>
    /\ UNCHANGED <<tasks, now, pausedChannels, clock, frozenAt, frozenNow, frozenBase>>
    /\ UNCHANGED <<storeVars, gestureVars, sceneVars, pointerVars, probeVars, callVars, hoverVars>>

\* The frame source fires: every requested loop callback runs with the
\* timestamp of the new frame.
AnimationFrame ==
    /\ pending > 0
    /\ clock < MaxTime
    /\ clock' = clock + 1
    /\ IF ~running
       THEN /\ pending' = 0
            /\ trace' = << >>
            /\ UNCHANGED <<tasks, now>>
       ELSE LET r == RunLoops(pending, clock', pausedChannels,
                              [tasks |-> tasks, trace |-> << >>, requested |-> 0,
                               threw |-> FALSE])
            IN /\ now' = clock'
               /\ tasks' = r.tasks
               /\ trace' = r.trace
               /\ pending' = r.requested
    /\ schedOp' = NoOp
    /\ UNCHANGED <<running, pausedChannels, frozenAt, frozenNow, frozenBase>>
    /\ UNCHANGED <<storeVars, gestureVars, sceneVars, pointerVars, probeVars, callVars, hoverVars>>

\* notifyPaused(now) on the tasks that carry the channel
NotifyPaused(ts, channel, t) ==
    [i \in 1..Len(ts) |-> IF channel \in ts[i].channels
                          THEN [ts[i] EXCEPT !.pausedAt = t] ELSE ts[i]]

\* notifyResumed(now) on the tasks that carry the channel: a plain task
\* shifts lastRun, an animation adds to totalPausedTime.
NotifyResumed(ts, channel, t) ==
    [i \in 1..Len(ts) |->
        IF channel \in ts[i].channels /\ ts[i].pausedAt # NoTime
        THEN IF ts[i].kind = "anim"
             THEN [ts[i] EXCEPT !.totalPausedTime = @ + (t - ts[i].pausedAt),
                                !.pausedAt = NoTime]
             ELSE [ts[i] EXCEPT !.lastRun = @ + (t - ts[i].pausedAt),
                                !.pausedAt = NoTime]
        ELSE ts[i]]

\* history: the tasks of ts a pause of the channel freezes at time t
FreezeAt(ts, paused, channel, t) ==
    [n \in TaskNames |->
        IF \E i \in 1..Len(ts) : /\ ts[i].name = n
                                 /\ channel \in ts[i].channels
                                 /\ ts[i].channels \cap paused = {}
        THEN t ELSE frozenAt[n]]

\* history: the tasks of ts no paused channel holds any more
Thaw(ts, paused) ==
    [n \in TaskNames |->
        IF \E i \in 1..Len(ts) : ts[i].name = n /\ ts[i].channels \cap paused # {}
        THEN frozenAt[n] ELSE NoTime]

\* history: the same two for the timestamp of the last loop pass
FreezeNow(ts, paused, channel, t) ==
    [n \in TaskNames |->
        IF \E i \in 1..Len(ts) : /\ ts[i].name = n
                                 /\ channel \in ts[i].channels
                                 /\ ts[i].channels \cap paused = {}
        THEN t ELSE frozenNow[n]]

ThawNow(ts, paused) ==
    [n \in TaskNames |->
        IF \E i \in 1..Len(ts) : ts[i].name = n /\ ts[i].channels \cap paused # {}
        THEN frozenNow[n] ELSE NoTime]

\* history: the same two for what the time correction of the task adds to,
\* the lastRun of a plain task and the totalPausedTime of an animation
TimeBase(task) == IF task.kind = "anim" THEN task.totalPausedTime ELSE task.lastRun

FreezeBase(ts, paused, channel) ==
    [n \in TaskNames |->
        IF \E i \in 1..Len(ts) : /\ ts[i].name = n
                                 /\ channel \in ts[i].channels
                                 /\ ts[i].channels \cap paused = {}
        THEN TimeBase(ts[CHOOSE i \in 1..Len(ts) : ts[i].name = n]) ELSE frozenBase[n]]

ThawBase(ts, paused) ==
    [n \in TaskNames |->
        IF \E i \in 1..Len(ts) : ts[i].name = n /\ ts[i].channels \cap paused # {}
        THEN frozenBase[n] ELSE NoTime]

\* TaskScheduler.pause(channel)
TaskScheduler_pause(channel) ==
    /\ pausedChannels' = pausedChannels \cup {channel}
    /\ tasks' = NotifyPaused(tasks, channel, now)
    /\ frozenAt' = FreezeAt(tasks, pausedChannels, channel, clock)
    /\ frozenNow' = FreezeNow(tasks, pausedChannels, channel, now)
    /\ frozenBase' = FreezeBase(tasks, pausedChannels, channel)
    /\ schedOp' = NoOp
    /\ trace' = << >>
    /\ UNCHANGED <<running, now, clock, pending>>
    /\ UNCHANGED <<storeVars, gestureVars, sceneVars, pointerVars, probeVars, callVars, hoverVars>>

\* A resume that never calls start().
TaskScheduler_resume_NoStart(channel) ==
    /\ running \/ pending < MaxPending
    /\ pausedChannels' = pausedChannels \ {channel}
    /\ tasks' = NotifyResumed(tasks, channel, now)
    /\ frozenAt' = Thaw(tasks, pausedChannels')
    /\ frozenNow' = ThawNow(tasks, pausedChannels')
    /\ frozenBase' = ThawBase(tasks, pausedChannels')
    /\ UNCHANGED <<running, pending>>
    /\ schedOp' = [op |-> "resume", wasRunning |-> running]
    /\ trace' = << >>
    /\ UNCHANGED <<now, clock>>
    /\ UNCHANGED <<storeVars, gestureVars, sceneVars, pointerVars, probeVars, callVars, hoverVars>>

\* TaskScheduler.resume(channel): the channel leaves the paused set, its tasks
\* are notified, and if (!this.running) this.start().
TaskScheduler_resume(channel) ==
    /\ running \/ pending < MaxPending
    /\ pausedChannels' = pausedChannels \ {channel}
    /\ tasks' = NotifyResumed(tasks, channel, now)
    /\ frozenAt' = Thaw(tasks, pausedChannels')
    /\ frozenNow' = ThawNow(tasks, pausedChannels')
    /\ frozenBase' = ThawBase(tasks, pausedChannels')
    /\ IF running
       THEN UNCHANGED <<running, pending>>
       ELSE running' = TRUE /\ pending' = pending + 1
    /\ schedOp' = [op |-> "resume", wasRunning |-> running]
    /\ trace' = << >>
    /\ UNCHANGED <<now, clock>>
    /\ UNCHANGED <<storeVars, gestureVars, sceneVars, pointerVars, probeVars, callVars, hoverVars>>

\* A stop() that halts the loop and keeps the tasks and the paused channels.
TaskScheduler_stop_HaltOnly ==
    /\ running' = FALSE
    /\ UNCHANGED <<pausedChannels, tasks, frozenAt, frozenNow, frozenBase>>
    /\ schedOp' = [op |-> "stop", wasRunning |-> running,
                   discarded |-> Len(tasks), cleared |-> pausedChannels]
    /\ trace' = << >>
    /\ UNCHANGED <<now, clock, pending>>
    /\ UNCHANGED <<storeVars, gestureVars, sceneVars, pointerVars, probeVars, callVars, hoverVars>>

\* TaskScheduler.stop(): channel === null
TaskScheduler_stop ==
    /\ running' = FALSE
    /\ pausedChannels' = {}
    /\ tasks' = << >>
    /\ frozenAt' = NeverFrozen
    /\ frozenNow' = NeverFrozen
    /\ frozenBase' = NeverFrozen
    /\ schedOp' = [op |-> "stop", wasRunning |-> running,
                   discarded |-> Len(tasks), cleared |-> pausedChannels]
    /\ trace' = << >>
    /\ UNCHANGED <<now, clock, pending>>
    /\ UNCHANGED <<storeVars, gestureVars, sceneVars, pointerVars, probeVars, callVars, hoverVars>>

\* TaskScheduler.stop(channel)
TaskScheduler_stopChannel(channel) ==
    /\ tasks' = RemoveByChannel(tasks, channel)
    /\ pausedChannels' = pausedChannels \ {channel}
    /\ frozenAt' = Thaw(tasks', pausedChannels')
    /\ frozenNow' = ThawNow(tasks', pausedChannels')
    /\ frozenBase' = ThawBase(tasks', pausedChannels')
    /\ schedOp' = [op |-> "stopChannel", channel |-> channel,
                   discarded |-> Len(tasks) - Len(tasks'),
                   wasPaused |-> pausedChannels]
    /\ trace' = << >>
    /\ UNCHANGED <<running, now, clock, pending>>
    /\ UNCHANGED <<storeVars, gestureVars, sceneVars, pointerVars, probeVars, callVars, hoverVars>>

SchedNext ==
    \/ AdvanceTime
    \/ \E c \in AddCalls : TaskScheduler_add(c[1], c[2], c[3], c[4], c[5])
    \/ \E c \in AddAnimCalls :
            TaskScheduler_addAnim(c[1], c[2], c[3], c[4], c[5], c[6], c[7])
    \/ \E name \in TaskNames : TaskScheduler_remove(name)
    \/ TaskScheduler_start
    \/ AnimationFrame
    \/ \E channel \in Channels : TaskScheduler_pause(channel)
    \/ \E channel \in Channels : TaskScheduler_resume(channel)
    \/ TaskScheduler_stop
    \/ \E channel \in Channels : TaskScheduler_stopChannel(channel)

\* The callers that try callbacks which change the task list during a pass,
\* and tasks with a finite repeat count: no pause, no stop.
TickNext ==
    \/ AdvanceTime
    \/ \E c \in TickCalls : TaskScheduler_add(c[1], c[2], c[3], c[4], c[5])
    \/ TaskScheduler_start
    \/ AnimationFrame

\* The callers that try tasks replaced from inside a callback.
ReplaceNext ==
    \/ AdvanceTime
    \/ \E c \in ReplaceCalls : TaskScheduler_add(c[1], c[2], c[3], c[4], c[5])
    \/ TaskScheduler_start
    \/ AnimationFrame

\* The callers that start, stop and resume the scheduler between frames.
LoopNext ==
    \/ AdvanceTime
    \/ \E c \in TickCalls : TaskScheduler_add(c[1], c[2], c[3], c[4], c[5])
    \/ TaskScheduler_start
    \/ AnimationFrame
    \/ \E channel \in Channels : TaskScheduler_resume(channel)
    \/ TaskScheduler_stop

(***************************************************************************)
(*        Context unit collection, render pass, click dispatch             *)
(***************************************************************************)

\* Bound on the number of units the callers construct.
MaxUnits == 3

\* canvas.width and canvas.height published at construction.
CanvasWidth == 4
CanvasHeight == 2

\* Number.MIN_SAFE_INTEGER, the zOrder of the anchors: -(2^53 - 1) in the
\* source, here a number below every zOrder the callers use.
MIN_SAFE_INTEGER == -(2^20)

\* The attributes the callers hand to new Unit(context, attributes), and the
\* points they click.  Units are 2 x 2, so the units at x = 0 and x = 2 share
\* the points with x = 2.  rot stays {0, 0} and scale {1, 1}.
ZOrders == {0, 1}
UnitXs == {0, 2}
ClickXs == {1, 2, 3}
ClickY == 1
UnitSize == [width |-> 2, height |-> 2]

\* context.randomName("Unit"): a fresh name for the n-th unit constructed.
randomName(n) == <<"Unit", n>>

\* Context.anchorNames
anchorNames ==
    << <<"top-left", "top-center", "top-right">>,
       <<"center-left", "center", "center-right">>,
       <<"bottom-left", "bottom-center", "bottom-right">> >>

\* The anchor unit of row r, column c (0-based) as setupAnchors leaves it:
\* size 0 x 0, zOrder MIN_SAFE_INTEGER, pos (width * c / 2, height * r / 2).
AnchorUnit(r, c) ==
    [name |-> <<"CONTEXT-ANCHOR-UNIT", anchorNames[r + 1][c + 1]>>,
     zOrder |-> MIN_SAFE_INTEGER, enabled |-> TRUE,
     pos |-> [x |-> (CanvasWidth * c) \div 2, y |-> (CanvasHeight * r) \div 2],
     size |-> [width |-> 0, height |-> 0]]

\* null, where the detector holds a unit
NoUnit == <<"null", 0>>

\* The geometry a unit has when the callers hand the constructor none:
\* this.size = {width: 100, height: 100}, this.pos = {x: 10, y: 10}.
DefaultUnit == [pos |-> [x |-> 10, y |-> 10], size |-> [width |-> 100, height |-> 100]]

\* A hit test that leaves the edges of the box out.
hitTest_Inside(unit, x, y) ==
    /\ unit.pos.x < x /\ x < unit.pos.x + unit.size.width
    /\ unit.pos.y < y /\ y < unit.pos.y + unit.size.height

\* unit.hitTest(x, y) of hitTestDefaultFactory for rot = 0 and scale = 1, in
\* doubled coordinates (the centre is pos + size / 2): translate by the
\* centre, rotate by -0 (cos 1, sin 0), divide by scale 1, shift by size / 2,
\* then test 0 <= final <= size on both axes.
hitTest(unit, x, y) ==
    LET cx2 == 2 * unit.pos.x + unit.size.width
        cy2 == 2 * unit.pos.y + unit.size.height
        lx2 == 2 * x - cx2
        ly2 == 2 * y - cy2
        rx2 == lx2 * 1 - ly2 * 0
        ry2 == lx2 * 0 + ly2 * 1
        finalX2 == rx2 + unit.size.width
        finalY2 == ry2 + unit.size.height
    IN /\ finalX2 >= 0
       /\ finalY2 >= 0
       /\ finalX2 <= 2 * unit.size.width
       /\ finalY2 <= 2 * unit.size.height

\* One stable insertion of u into a list ordered by zOrder: after every
\* element that does not compare greater (a.zOrder - b.zOrder <= 0).
RECURSIVE InsertByZOrder(_, _)
InsertByZOrder(sorted, u) ==
    IF sorted = << >> THEN <<u>>
    ELSE IF Head(sorted).zOrder - u.zOrder <= 0
         THEN <<Head(sorted)>> \o InsertByZOrder(Tail(sorted), u)
         ELSE <<u>> \o sorted

\* A sort that leaves the list as it is.
SortByZOrder_None(us, acc) == us

\* this._units.sort((a, b) => a.zOrder - b.zOrder): Array.prototype.sort is
\* stable.
RECURSIVE SortByZOrder(_, _)
SortByZOrder(us, acc) ==
    IF us = << >> THEN acc
    ELSE SortByZOrder(Tail(us), InsertByZOrder(acc, Head(us)))

\* A scan of the list from its front.
ClickScan_Forward(us, i, x, y) ==
    LET hits == {j \in 1..Len(us) : hitTest(us[j], x, y) /\ us[j].enabled}
    IN IF hits = {} THEN << >>
       ELSE <<us[CHOOSE j \in hits : \A k \in hits : j <= k].name>>

\* for (let unit of [...this.context._units].reverse()) { if (unit.hitTest(x,
\* y) && unit.enabled) { unit.onClick?.(event); break; } }: index i runs from
\* the end of the list to its front; the result lists the units called.
RECURSIVE ClickScan(_, _, _, _)
ClickScan(us, i, x, y) ==
    IF i < 1 THEN << >>
    ELSE IF hitTest(us[i], x, y) /\ us[i].enabled THEN <<us[i].name>>
         ELSE ClickScan(us, i - 1, x, y)

\* new Unit(context, {zOrder, enabled, pos}): context.addUnit(this), a fresh
\* name, then the attributes.
NewUnit(zOrder, enabled, x) ==
    /\ created < MaxUnits
    /\ created' = created + 1
    /\ zSorted' = FALSE
    /\ units' = Append(units, [name |-> randomName(created + 1), zOrder |-> zOrder,
                               enabled |-> enabled, pos |-> [x |-> x, y |-> 0],
                               size |-> UnitSize])
    /\ clickAt' = << >>
    /\ clicked' = << >>
    /\ drawn' = << >>
    /\ UNCHANGED <<storeVars, schedVars, sceneVars, pointerVars, probeVars, callVars, hoverVars>>

\* The name the callers hand to the constructor among the attributes.
OverrideName == <<"Unit", 0>>

\* new Unit(context, {name, zOrder, pos}): context.addUnit(this), a fresh
\* name, then Object.assign(this, attributes) puts the caller's name over it.
NewUnit_Named(name, zOrder, x) ==
    /\ created < MaxUnits
    /\ created' = created + 1
    /\ zSorted' = FALSE
    /\ units' = Append(units, [name |-> name, zOrder |-> zOrder,
                               enabled |-> TRUE, pos |-> [x |-> x, y |-> 0],
                               size |-> UnitSize])
    /\ clickAt' = << >>
    /\ clicked' = << >>
    /\ drawn' = << >>
    /\ UNCHANGED <<storeVars, schedVars, sceneVars, pointerVars, probeVars, callVars, hoverVars>>

\* unit.zOrder = z, a direct attribute write by the caller
SetZOrder(i, z) ==
    /\ i \in 10..Len(units)
    /\ units[i].zOrder # z
    /\ units' = [units EXCEPT ![i].zOrder = z]
    /\ clickAt' = << >>
    /\ clicked' = << >>
    /\ drawn' = << >>
    /\ UNCHANGED <<zSorted, created>>
    /\ UNCHANGED <<storeVars, schedVars, sceneVars, pointerVars, probeVars, callVars, hoverVars>>

\* unit.enabled = enabled, a direct attribute write by the caller
SetEnabled(i, enabled) ==
    /\ i \in 10..Len(units)
    /\ units[i].enabled # enabled
    /\ units' = [units EXCEPT ![i].enabled = enabled]
    /\ clickAt' = << >>
    /\ clicked' = << >>
    /\ drawn' = << >>
    /\ UNCHANGED <<zSorted, created>>
    /\ UNCHANGED <<storeVars, schedVars, sceneVars, pointerVars, probeVars, callVars, hoverVars>>

\* Unit.delete() of a unit without position bindings: context.removeUnit(name)
Unit_delete(i) ==
    /\ i \in 10..Len(units)
    /\ units' = SelectSeq(units, LAMBDA u : u.name # units[i].name)
    /\ clickAt' = << >>
    /\ clicked' = << >>
    /\ drawn' = << >>
    /\ UNCHANGED <<zSorted, created>>
    /\ UNCHANGED <<storeVars, schedVars, sceneVars, pointerVars, probeVars, callVars, hoverVars>>

\* The callback of the "render" task, run by a loop pass: zSortUnits(), then
\* ctx.fillRect over the whole canvas and unit.draw(context) for every unit of
\* the list, in list order.
Render ==
    /\ units' = IF zSorted THEN units ELSE SortByZOrder(units, << >>)
    /\ drawn' = <<[op |-> "fillRect", name |-> <<"canvas", 0>>]>>
                 \o [i \in 1..Len(units') |-> [op |-> "draw", name |-> units'[i].name]]
    /\ clickAt' = << >>
    /\ clicked' = << >>
    /\ UNCHANGED <<zSorted, created>>
    /\ UNCHANGED <<storeVars, schedVars, sceneVars, pointerVars, probeVars, callVars, hoverVars>>

\* The "click" listener of the canvas, for a click at (x, y).
Click(x, y) ==
    /\ clicked' = ClickScan(units, Len(units), x, y)
    /\ clickAt' = <<x, y>>
    /\ drawn' = << >>
    /\ UNCHANGED <<units, zSorted, created>>
    /\ UNCHANGED <<storeVars, schedVars, sceneVars, pointerVars, probeVars, callVars, hoverVars>>

GestureNext ==
    \/ \E zOrder \in ZOrders, enabled \in BOOLEAN, x \in UnitXs : NewUnit(zOrder, enabled, x)
    \/ \E i \in 1..Len(units), z \in ZOrders : SetZOrder(i, z)
    \/ \E i \in 1..Len(units) : Unit_delete(i)
    \/ Render
    \/ \E x \in ClickXs : Click(x, ClickY)

\* The callers that try units constructed with a name of their own.
DeleteNext ==
    \/ \E zOrder \in ZOrders, x \in UnitXs : NewUnit(zOrder, TRUE, x)
    \/ \E zOrder \in ZOrders, x \in UnitXs : NewUnit_Named(OverrideName, zOrder, x)
    \/ \E i \in 10..Len(units) : Unit_delete(i)

(***************************************************************************)
(*     Unit.update, position binding and deletion over store and context   *)
(***************************************************************************)

\* Bound on the updatePosition closures the callers create.
MaxBinds == 2

\* The direction keywords of bindPositionRelativeTo, and one that the switch
\* does not know.
Directions ==
    {"top-left", "top-right", "bottom-left", "bottom-right",
     "left", "right", "top", "bottom", "center", "sideways"}

\* The offsets the callers hand to bindPositionRelativeTo: {x: 5} and
\* {x: 1, y: 2}.
Offsets == {[x |-> 5], [x |-> 1, y |-> 2]}

\* Three groups of callers are tried, each with its own calls.  A call of
\* bindPositionRelativeTo is <<number of the unit, name of the other unit,
\* direction, offset>>, a call of update <<number of the unit, attr, value>>.
\*
\* The callers that try the placements bind the second unit to the first in
\* every direction, the edges with {x: 5} and the rest with {x: 1, y: 2}, and
\* update the position and the size of both.
PlacementCalls ==
    {<<2, <<"Unit", 1>>, direction, [x |-> 5]>> :
        direction \in {"left", "right", "top", "bottom"}}
      \cup {<<2, <<"Unit", 1>>, direction, [x |-> 1, y |-> 2]>> :
               direction \in Directions \ {"left", "right", "top", "bottom"}}

PlacementUpdates ==
    { <<1, "pos", [x |-> 0, y |-> 0]>>, <<1, "pos", [x |-> 3, y |-> 1]>>,
      <<1, "size", [width |-> 2, height |-> 2]>>, <<1, "size", [width |-> 4, height |-> 2]>>,
      <<2, "pos", [x |-> 0, y |-> 0]>>,
      <<2, "size", [width |-> 2, height |-> 2]>>, <<2, "size", [width |-> 4, height |-> 2]>> }

\* Bound on the bindPositionRelativeTo calls of those callers.
MaxPlacements == 1

\* The callers that try chains of bindings: the second unit to the first, the
\* third to the second, units to the anchors "center" and "bottom-right".
BindCalls ==
    { <<2, <<"Unit", 1>>, "right", [x |-> 5]>>,
      <<2, <<"Unit", 1>>, "top-left", [x |-> 1, y |-> 2]>>,
      <<3, <<"Unit", 2>>, "right", [x |-> 5]>>,
      <<1, <<"CONTEXT-ANCHOR-UNIT", "center">>, "bottom-right", [x |-> 1, y |-> 2]>>,
      <<2, <<"CONTEXT-ANCHOR-UNIT", "bottom-right">>, "left", [x |-> 5]>> }

BindUpdates ==
    { <<1, "pos", [x |-> 0, y |-> 0]>>, <<1, "pos", [x |-> 3, y |-> 1]>>,
      <<1, "size", [width |-> 4, height |-> 2]>>,
      <<2, "size", [width |-> 2, height |-> 2]>> }

\* The callers that try update and delete: two units, the second bound to the
\* first or to an anchor.
SceneCalls ==
    { <<2, <<"Unit", 1>>, "right", [x |-> 5]>>,
      <<2, <<"CONTEXT-ANCHOR-UNIT", "center">>, "bottom", [x |-> 5]>> }

SceneUpdates ==
    { <<1, "pos", [x |-> 3, y |-> 1]>>, <<1, "size", [width |-> 4, height |-> 2]>>,
      <<1, "pos.x", 7>>, <<2, "pos", [x |-> 0, y |-> 0]>>, <<2, "pos.x", 7>> }

\* The attributes of the n-th new Unit(context, {pos, size, onDataChange})
\* call the callers make: <<pos, size, whether onDataChange holds a handler>>.
ConstructorCalls ==
    << <<[x |-> 0, y |-> 0], [width |-> 2, height |-> 2], FALSE>>,
       <<[x |-> 3, y |-> 1], [width |-> 4, height |-> 2], TRUE>>,
       <<[x |-> 0, y |-> 0], [width |-> 2, height |-> 2], FALSE>>,
       <<[x |-> 3, y |-> 1], [width |-> 2, height |-> 2], TRUE>> >>

\* The sizes the canvas takes.  Widths and heights, of units and of the
\* canvas, are even numbers, so that the halves that updatePosition and
\* setupAnchors compute are whole numbers.
CanvasSizes == {[width |-> 4, height |-> 2], [width |-> 6, height |-> 4]}

\* The sizes the container takes where anchors are deleted.
AnchorSizes == CanvasSizes \cup {[width |-> 8, height |-> 6], [width |-> 2, height |-> 2]}

\* name + "::" + attributeName: a store key is the pair of the two parts,
\* and a name is itself a pair, as randomName and setupAnchors build it.
getAttributeStoreName(name, attributeName) == <<name, attributeName>>

\* Context.SIZE_STORE_KEY, "CONTEXT::size"
SIZE_STORE_KEY == <<<<"CONTEXT", "">>, "size">>

\* The key under which the callers of the scene keep a value of their own, the
\* key of the onDataChange handlers of their units.
UserKey == <<<<"user", "">>, "score">>
UserValues == {10, 20}

\* attributeName.split(".")
split(attributeName) ==
    IF attributeName = "pos.x" THEN <<"pos", "x">> ELSE <<attributeName>>

\* const { x: padX = 0, y: padY = 0 } = offset
padX(offset) == IF "x" \in DOMAIN offset THEN offset.x ELSE 0
padY(offset) == IF "y" \in DOMAIN offset THEN offset.y ELSE 0

\* An updatePosition that adds no offset.
updatePosition_NoOffset(self, otherUnit, direction, offset) ==
    [x |-> otherUnit.pos.x + otherUnit.size.width, y |-> otherUnit.pos.y]

\* The position that the closure updatePosition of self.bindPositionRelativeTo(
\* otherUnit, direction, offset) hands to this.update("pos", ...): the switch
\* over direction, then the offset.
updatePosition(self, otherUnit, direction, offset) ==
    LET thisBox == [x |-> self.pos.x, y |-> self.pos.y,
                    width |-> self.size.width, height |-> self.size.height]
        otherBox == [x |-> otherUnit.pos.x, y |-> otherUnit.pos.y,
                     width |-> otherUnit.size.width, height |-> otherUnit.size.height]
        leftOf == otherBox.x - thisBox.width
        rightOf == otherBox.x + otherBox.width
        above == otherBox.y - thisBox.height
        below == otherBox.y + otherBox.height
        midX == otherBox.x + (otherBox.width - thisBox.width) \div 2
        midY == otherBox.y + (otherBox.height - thisBox.height) \div 2
        new == CASE direction = "top-left" -> <<leftOf, above>>
                 [] direction = "top-right" -> <<rightOf, above>>
                 [] direction = "bottom-left" -> <<leftOf, below>>
                 [] direction = "bottom-right" -> <<rightOf, below>>
                 [] direction = "left" -> <<leftOf, midY>>
                 [] direction = "right" -> <<rightOf, midY>>
                 [] direction = "top" -> <<midX, above>>
                 [] direction = "bottom" -> <<midX, below>>
                 [] OTHER -> <<midX, midY>>
    IN [x |-> new[1] + padX(offset), y |-> new[2] + padY(offset)]

\* The listener that the constructor of Context registers under
\* SIZE_STORE_KEY, this.setupAnchors.bind(this).
setupAnchorsListener ==
    [kind |-> "setupAnchors", id |-> 0, self |-> <<"CONTEXT", "">>,
     other |-> <<"CONTEXT", "">>, direction |-> "-", offset |-> [x |-> 0]]

\* this.onDataChange[key] of the unit called name
onDataChangeListener(name) ==
    [kind |-> "onDataChange", id |-> 0, self |-> name,
     other |-> name, direction |-> "-", offset |-> [x |-> 0]]

\* The id-th closure updatePosition, made by the call
\* self.bindPositionRelativeTo(otherUnit, direction, offset); it holds the
\* two unit objects.
updatePositionListener(id, self, otherUnit, direction, offset) ==
    [kind |-> "updatePosition", id |-> id, self |-> self,
     other |-> otherUnit, direction |-> direction, offset |-> offset]

\* The unit object called name: an element of the context's list, or an
\* object that removeUnit took off the list.  h is the heap a call works on:
\* the unit list, the removed objects, the store's data and the listener
\* calls made so far.
UnitObject(h, name) ==
    LET at == {i \in 1..Len(h.units) : h.units[i].name = name}
    IN IF at # {} THEN h.units[CHOOSE i \in at : TRUE] ELSE h.detached[name]

\* The heap with the object called obj.name replaced by obj.
StoreObject(h, obj) ==
    IF \E i \in 1..Len(h.units) : h.units[i].name = obj.name
    THEN [h EXCEPT !.units = [i \in 1..Len(h.units) |->
                                IF h.units[i].name = obj.name THEN obj ELSE h.units[i]]]
    ELSE [h EXCEPT !.detached = (obj.name :> obj) @@ h.detached]

\* parts.reduce((obj, key) => obj?.[key], this)
RECURSIVE reduce(_, _)
reduce(obj, parts) ==
    IF parts = << >> THEN obj
    ELSE IF Head(parts) \in DOMAIN obj THEN reduce(obj[Head(parts)], Tail(parts))
         ELSE "undefined"

\* An update that writes the attribute and leaves the store alone.
update_Silent(h, ls, name, attr, value) ==
    StoreObject(h, (attr :> value) @@ UnitObject(h, name))

\* A filter that finds no anchor in the list.
anchorUnits_None(us) == << >>

\* this._units.filter(u => u.name.startsWith("CONTEXT-ANCHOR-UNIT"))
anchorUnits(us) == SelectSeq(us, LAMBDA u : u.name[1] = "CONTEXT-ANCHOR-UNIT")

\* The nine units that the first loop of Context.setupAnchors constructs, row
\* by row: new Unit(this, {name, size: {0, 0}, pos: {0, 0}, zOrder:
\* Number.MIN_SAFE_INTEGER}), each pushed onto the list by its constructor.
NewAnchors ==
    [k \in 1..9 |->
       [name |-> <<"CONTEXT-ANCHOR-UNIT", anchorNames[((k - 1) \div 3) + 1][((k - 1) % 3) + 1]>>,
        zOrder |-> MIN_SAFE_INTEGER, enabled |-> TRUE,
        pos |-> [x |-> 0, y |-> 0], size |-> [width |-> 0, height |-> 0],
        onDataChange |-> {}, boundPositionListeners |-> << >>]]

\* Unit.update, Unit.updateInStore, DataStore.set with its forEach, a listener
\* call and Context.setupAnchors call one another; ls is the store's listener
\* table, which none of them changes.
RECURSIVE update(_, _, _, _, _)
RECURSIVE updateInStore(_, _, _, _)
RECURSIVE set(_, _, _, _)
RECURSIVE forEach(_, _, _, _, _)
RECURSIVE call(_, _, _, _)
RECURSIVE setupAnchors(_, _, _)

\* update(attr, value): this[attr] = value; this.updateInStore(attr).  The
\* assignment makes or overwrites the one property called attr.
update(h, ls, name, attr, value) ==
    updateInStore(StoreObject(h, (attr :> value) @@ UnitObject(h, name)), ls, name, attr)

\* updateInStore(attributeName): the value read along the path of the name,
\* handed to store.set under getAttributeStoreName(attributeName).
updateInStore(h, ls, name, attributeName) ==
    set(h, ls, getAttributeStoreName(name, attributeName),
        reduce(UnitObject(h, name), split(attributeName)))

\* DataStore.set(key, value) on the store of the context
set(h, ls, key, value) ==
    forEach([h EXCEPT !.data = (key :> value) @@ h.data], ls, ListenersOf(ls, key), 1, value)

\* (this._listeners[key] || []).forEach(fn => { fn(value) }), from index i on;
\* an exception of a listener ends it.
forEach(h, ls, lst, i, value) ==
    IF i > Len(lst) \/ h.threw THEN h
    ELSE forEach(call(h, ls, lst[i], value), ls, lst, i + 1, value)

\* fn(value) for a listener of the store: a closure updatePosition moves its
\* unit with this.update("pos", ...), setupAnchors places the anchors, a
\* handler of onDataChange is the callers' and changes nothing here.
call(h, ls, fn, value) ==
    LET h1 == [h EXCEPT !.calls = Append(h.calls, [fn |-> fn, value |-> value])]
    IN CASE fn.kind = "updatePosition" ->
              update(h1, ls, fn.self, "pos",
                     updatePosition(UnitObject(h1, fn.self), UnitObject(h1, fn.other),
                                    fn.direction, fn.offset))
         [] fn.kind = "setupAnchors" -> setupAnchors(h1, ls, 0)
         [] OTHER -> h1

\* Context.setupAnchors from the k-th pass of its second loop on (row k / 3,
\* column k % 3): anchorUnit.update("pos", {x: size.width * c / 2,
\* y: size.height * r / 2}) with size read from the store; before the pass
\* 0, the first loop: the nine anchors are constructed if the list holds no
\* unit whose name starts with "CONTEXT-ANCHOR-UNIT".  A pass that does not
\* find its anchor in the list throws Error("Screen anchor was removed / not
\* found").
setupAnchors(h, ls, k) ==
    IF k > 8 \/ h.threw THEN h
    ELSE LET h0 == IF k = 0 /\ Len(anchorUnits(h.units)) = 0
                   THEN [h EXCEPT !.units = @ \o NewAnchors]
                   ELSE h
             size == h0.data[SIZE_STORE_KEY]
             r == k \div 3
             c == k % 3
             name == <<"CONTEXT-ANCHOR-UNIT", anchorNames[r + 1][c + 1]>>
         IN IF \A i \in 1..Len(h0.units) : h0.units[i].name # name
            THEN [h0 EXCEPT !.threw = TRUE]
            ELSE setupAnchors(update(h0, ls, name, "pos",
                                     [x |-> (size.width * c) \div 2,
                                      y |-> (size.height * r) \div 2]),
                              ls, k + 1)

\* this._listeners[key] = this._listeners[key] || []; this._listeners[key].push(fn)
onChange(ls, key, fn) == (key :> Append(ListenersOf(ls, key), fn)) @@ ls

\* if (lst) this._listeners[key] = lst.filter(f => f !== fn)
removeOnChange(ls, key, fn) ==
    IF key \in DOMAIN ls THEN [ls EXCEPT ![key] = FilterOut(ls[key], fn)] ELSE ls

\* The seven keys that bindPositionRelativeTo watches, in the order of its
\* watch(...) calls.
WatchedKeys(self, otherUnit) ==
    << getAttributeStoreName(otherUnit, "pos"), getAttributeStoreName(otherUnit, "size"),
       getAttributeStoreName(otherUnit, "rot"), getAttributeStoreName(otherUnit, "scale"),
       getAttributeStoreName(self, "size"), getAttributeStoreName(self, "rot"),
       getAttributeStoreName(self, "scale") >>

\* watch(key) for the keys from index i on: store.onChange(key, updatePosition)
RECURSIVE watch(_, _, _, _)
watch(ls, keys, i, fn) ==
    IF i > Len(keys) THEN ls
    ELSE watch(onChange(ls, keys[i], fn), keys, i + 1, fn)

\* An unbind that takes the listeners of the latest binding only off the store.
RemoveBound_Latest(ls, bound, i) ==
    LET from == IF Len(bound) > 7 THEN Len(bound) - 6 ELSE 1
        fn == IF bound = << >> THEN setupAnchorsListener ELSE bound[Len(bound)].fn
    IN [key \in DOMAIN ls |->
          IF \E k \in from..Len(bound) : bound[k].key = key
          THEN FilterOut(ls[key], fn) ELSE ls[key]]

\* for (let { key, fn } of this._boundPositionListeners)
\*     this.context.store.removeOnChange(key, fn), from index i on
RECURSIVE RemoveBound(_, _, _)
RemoveBound(ls, bound, i) ==
    IF i > Len(bound) THEN ls
    ELSE RemoveBound(removeOnChange(ls, bound[i].key, bound[i].fn), bound, i + 1)

\* The units that the closures of the unit called name read as otherUnit.
Targets(us, name) ==
    UNION {{us[i].boundPositionListeners[k].fn.other :
               k \in 1..Len(us[i].boundPositionListeners)} :
           i \in {j \in 1..Len(us) : us[j].name = name}}

\* The units that the units called names follow, through at most n bindings.
RECURSIVE Follows(_, _, _)
Follows(us, names, n) ==
    IF n = 0 THEN names
    ELSE Follows(us, names \cup UNION {Targets(us, m) : m \in names}, n - 1)

\* The places in the list us of the units called name (one, when the unit
\* is in the list).
IndexOf(us, name) == {i \in 1..Len(us) : us[i].name = name}

\* The heap at the start of a call, with no listener called yet.
Heap ==
    [units |-> units, detached |-> detached, data |-> data, calls |-> << >>,
     threw |-> FALSE]

\* new Unit(context, {pos, size, onDataChange}): context.addUnit(this), a
\* fresh name, the defaults, the attributes over them, and store.onChange for
\* every key of onDataChange (here none, or a handler for UserKey).  The
\* property _boundPositionListeners is not there yet; the code reads it
\* through "|| []" and "if (!...) return", as it reads an empty list.
Unit_constructor(pos, size, handler) ==
    /\ created < MaxUnits
    /\ created' = created + 1
    /\ zSorted' = FALSE
    /\ units' = Append(units, [name |-> randomName(created + 1), zOrder |-> 0,
                               enabled |-> TRUE, pos |-> pos, size |-> size,
                               onDataChange |-> IF handler THEN {UserKey} ELSE {},
                               boundPositionListeners |-> << >>])
    /\ listeners' = IF handler
                    THEN onChange(listeners, UserKey,
                                  onDataChangeListener(randomName(created + 1)))
                    ELSE listeners
    /\ calls' = << >>
    /\ sceneOp' = [op |-> "new", unit |-> randomName(created + 1)]
    /\ UNCHANGED <<data, lastOp, written, detached, binds, canvas>>
    /\ UNCHANGED <<clickAt, clicked, drawn, schedVars, pointerVars, probeVars, callVars, hoverVars>>

\* units[i].update(attr, value) by the callers, with every listener call that
\* the store.set inside it makes, and theirs.
Unit_update(i, attr, value) ==
    /\ i \in 10..Len(units)
    /\ LET h == update(Heap, listeners, units[i].name, attr, value)
       IN /\ units' = h.units
          /\ detached' = h.detached
          /\ data' = h.data
          /\ calls' = h.calls
    /\ sceneOp' = [op |-> "update", unit |-> units[i].name, attr |-> attr,
                   value |-> value]
    /\ UNCHANGED <<listeners, lastOp, written, binds, canvas, zSorted, created>>
    /\ UNCHANGED <<clickAt, clicked, drawn, schedVars, pointerVars, probeVars, callVars, hoverVars>>

\* units[i].bindPositionRelativeTo(units[j], direction, offset): a new closure
\* updatePosition, the seven watch(...) calls, then updatePosition() itself.
\* The callers bind no unit to itself or to a unit that follows it: such a
\* closure would call itself through the store without end.
Unit_bindPositionRelativeTo(i, j, direction, offset) ==
    /\ i \in 10..Len(units) /\ j \in 1..Len(units) /\ i # j
    /\ binds < MaxBinds
    /\ units[i].name \notin Follows(units, {units[j].name}, Len(units))
    /\ LET self == units[i].name
           otherUnit == units[j].name
           fn == updatePositionListener(binds + 1, self, otherUnit, direction, offset)
           keys == WatchedKeys(self, otherUnit)
           ls == watch(listeners, keys, 1, fn)
           recorded == units[i].boundPositionListeners
                         \o [k \in 1..Len(keys) |-> [key |-> keys[k], fn |-> fn]]
           h == update([Heap EXCEPT !.units[i].boundPositionListeners = recorded],
                       ls, self, "pos",
                       updatePosition(units[i], units[j], direction, offset))
       IN /\ listeners' = ls
          /\ units' = h.units
          /\ detached' = h.detached
          /\ data' = h.data
          /\ calls' = h.calls
    /\ binds' = binds + 1
    /\ sceneOp' = [op |-> "bind", unit |-> units[i].name, attr |-> "pos",
                   fn |-> updatePositionListener(binds + 1, units[i].name, units[j].name,
                                                 direction, offset)]
    /\ UNCHANGED <<lastOp, written, canvas, zSorted, created>>
    /\ UNCHANGED <<clickAt, clicked, drawn, schedVars, pointerVars, probeVars, callVars, hoverVars>>

\* units[i].unbindPositionRelativeTo()
Unit_unbindPositionRelativeTo(i) ==
    /\ i \in 10..Len(units)
    /\ listeners' = RemoveBound(listeners, units[i].boundPositionListeners, 1)
    /\ units' = [units EXCEPT ![i].boundPositionListeners = << >>]
    /\ calls' = << >>
    /\ sceneOp' = [op |-> "unbind", unit |-> units[i].name, attr |-> "-",
                   had |-> Len(units[i].boundPositionListeners)]
    /\ UNCHANGED <<data, lastOp, written, detached, binds, canvas, zSorted, created>>
    /\ UNCHANGED <<clickAt, clicked, drawn, schedVars, pointerVars, probeVars, callVars, hoverVars>>

\* A delete that takes the unit off the list and leaves its closures in the
\* store.
Unit_deleteBound_KeepListeners(i) ==
    /\ i \in 10..Len(units)
    /\ units' = SelectSeq(units, LAMBDA u : u.name # units[i].name)
    /\ detached' = (units[i].name :> units[i]) @@ detached
    /\ calls' = << >>
    /\ sceneOp' = [op |-> "delete", unit |-> units[i].name, attr |-> "-",
                   had |-> Len(units[i].boundPositionListeners)]
    /\ UNCHANGED <<listeners, data, lastOp, written, binds, canvas, zSorted, created>>
    /\ UNCHANGED <<clickAt, clicked, drawn, schedVars, pointerVars, probeVars, callVars, hoverVars>>

\* units[i].delete(): this.unbindPositionRelativeTo(), then
\* context.removeUnit(this.name).  The object lives on in the closures of the
\* units bound to it.
Unit_deleteBound(i) ==
    /\ i \in 10..Len(units)
    /\ listeners' = RemoveBound(listeners, units[i].boundPositionListeners, 1)
    /\ units' = SelectSeq(units, LAMBDA u : u.name # units[i].name)
    /\ detached' = (units[i].name :> [units[i] EXCEPT !.boundPositionListeners = << >>])
                      @@ detached
    /\ calls' = << >>
    /\ sceneOp' = [op |-> "delete", unit |-> units[i].name, attr |-> "-",
                   had |-> Len(units[i].boundPositionListeners)]
    /\ UNCHANGED <<data, lastOp, written, binds, canvas, zSorted, created>>
    /\ UNCHANGED <<clickAt, clicked, drawn, schedVars, pointerVars, probeVars, callVars, hoverVars>>

\* The anchors the callers delete: the first, the middle one and the last.
DeletedAnchors == {"top-left", "center", "bottom-right"}

\* context.getAnchor(posName).delete(): the anchor has no binding of its
\* own, and context.removeUnit(this.name) takes it off the list.
Anchor_delete(posName) ==
    /\ \E i \in 1..Len(units) : units[i].name = <<"CONTEXT-ANCHOR-UNIT", posName>>
    /\ LET i == CHOOSE i \in 1..Len(units) : units[i].name = <<"CONTEXT-ANCHOR-UNIT", posName>>
       IN /\ listeners' = RemoveBound(listeners, units[i].boundPositionListeners, 1)
          /\ units' = SelectSeq(units, LAMBDA u : u.name # units[i].name)
          /\ detached' = (units[i].name :> [units[i] EXCEPT !.boundPositionListeners = << >>])
                            @@ detached
          /\ sceneOp' = [op |-> "delete", unit |-> units[i].name, attr |-> "-",
                         had |-> Len(units[i].boundPositionListeners)]
    /\ calls' = << >>
    /\ UNCHANGED <<data, lastOp, written, binds, canvas, zSorted, created>>
    /\ UNCHANGED <<clickAt, clicked, drawn, schedVars, pointerVars, probeVars, callVars, hoverVars>>

\* resizeCanvasToMatch, the callback of the ResizeObserver: the canvas takes
\* the size of its container, and the size is published under SIZE_STORE_KEY.
resizeCanvasToMatch(size) ==
    /\ size # canvas
    /\ canvas' = size
    /\ LET h == set(Heap, listeners, SIZE_STORE_KEY, size)
       IN /\ units' = h.units
          /\ detached' = h.detached
          /\ data' = h.data
          /\ calls' = h.calls
          /\ sceneOp' = [op |-> "resize", unit |-> <<"CONTEXT", "">>, attr |-> "size",
                         threw |-> h.threw]
    /\ UNCHANGED <<listeners, lastOp, written, binds, zSorted, created>>
    /\ UNCHANGED <<clickAt, clicked, drawn, schedVars, pointerVars, probeVars, callVars, hoverVars>>

\* context.store.set(UserKey, value) by the callers
SetUserKey(value) ==
    /\ LET h == set(Heap, listeners, UserKey, value)
       IN /\ units' = h.units
          /\ detached' = h.detached
          /\ data' = h.data
          /\ calls' = h.calls
    /\ sceneOp' = [op |-> "set", unit |-> <<"user", "">>, attr |-> "score"]
    /\ UNCHANGED <<listeners, lastOp, written, binds, canvas, zSorted, created>>
    /\ UNCHANGED <<clickAt, clicked, drawn, schedVars, pointerVars, probeVars, callVars, hoverVars>>

\* The callers that try the placements.
PlacementNext ==
    \/ \E c \in {ConstructorCalls[n] : n \in {created + 1} \cap {1, 2}} :
          Unit_constructor(c[1], c[2], c[3])
    \/ \E c \in PlacementUpdates :
          \E i \in IndexOf(units, randomName(c[1])) : Unit_update(i, c[2], c[3])
    \/ \E c \in PlacementCalls :
          \E i \in IndexOf(units, randomName(c[1])), j \in IndexOf(units, c[2]) :
             binds < MaxPlacements /\ Unit_bindPositionRelativeTo(i, j, c[3], c[4])

\* The callers that try chains of bindings, unbinding and the anchors.
BindNext ==
    \/ \E c \in {ConstructorCalls[n] : n \in {created + 1} \cap DOMAIN ConstructorCalls} :
          Unit_constructor(c[1], c[2], c[3])
    \/ \E c \in BindUpdates :
          \E i \in IndexOf(units, randomName(c[1])) : Unit_update(i, c[2], c[3])
    \/ \E c \in BindCalls :
          \E i \in IndexOf(units, randomName(c[1])), j \in IndexOf(units, c[2]) :
             Unit_bindPositionRelativeTo(i, j, c[3], c[4])
    \/ \E i \in 10..Len(units) : Unit_unbindPositionRelativeTo(i)
    \/ \E size \in CanvasSizes : resizeCanvasToMatch(size)

\* The callers that delete anchors between two changes of the size.
AnchorNext ==
    \/ \E posName \in DeletedAnchors : Anchor_delete(posName)
    \/ \E size \in AnchorSizes : resizeCanvasToMatch(size)

\* The callers that try update and delete.
SceneNext ==
    \/ \E c \in {ConstructorCalls[n] : n \in {created + 1} \cap {1, 2}} :
          Unit_constructor(c[1], c[2], c[3])
    \/ \E c \in SceneUpdates :
          \E i \in IndexOf(units, randomName(c[1])) : Unit_update(i, c[2], c[3])
    \/ \E c \in SceneCalls :
          \E i \in IndexOf(units, randomName(c[1])), j \in IndexOf(units, c[2]) :
             Unit_bindPositionRelativeTo(i, j, c[3], c[4])
    \/ \E i \in 10..Len(units) : Unit_deleteBound(i)
    \/ \E value \in UserValues : SetUserKey(value)

(***************************************************************************)
(*      GestureDetector: press, release, move, leave, long press, hover    *)
(***************************************************************************)

\* The delay of the long-press timer: setTimeout(..., 500).
LongPressDelay == 500

\* The page time between two events of the callers, and the bound on it.
TimeStep == 250
MaxPointerTime == 750

\* Bound on the number of presses that hit a unit.
MaxPresses == 2

\* The units the callers construct, in this order (zOrder, enabled, x): an
\* enabled unit over x in 0..2, an enabled one over 2..4, and a disabled one
\* over 2..4 above it.
PointerUnits == << <<0, TRUE, 0>>, <<0, TRUE, 2>>, <<0, FALSE, 2>> >>

\* The points of the pointer events: over the first unit, over both, over
\* the second (and the disabled third), over none.
PointerXs == {1, 2, 3, 5}

\* What a unit callback was called with: start and current are points, or
\* << >> where the callback gets none.
Callback(cb, unit, start, current) ==
    [cb |-> cb, unit |-> unit, start |-> start, current |-> current]

\* clearTimeout(id): the timer of that id, if it is still there, is dropped.
clearTimeout(ts, id) == SelectSeq(ts, LAMBDA t : t.id # id)

\* history: the units with an onHover that no onMouseLeave has followed,
\* after the calls cbs made one after the other.
RECURSIVE HoverOpen(_, _)
HoverOpen(open, cbs) ==
    IF cbs = << >> THEN open
    ELSE HoverOpen(CASE Head(cbs).cb = "onHover" -> open \cup {Head(cbs).unit}
                     [] Head(cbs).cb = "onMouseLeave" -> open \ {Head(cbs).unit}
                     [] OTHER -> open,
                   Tail(cbs))

\* The "mousedown" listener of the canvas, for a press at (x, y): the first
\* enabled unit hit, from the end of the list, gets onMouseDown, the drag
\* state is set and a timer is made whose handle replaces the one kept.
MouseDown(x, y) ==
    /\ LET found == ClickScan(units, Len(units), x, y)
       IN /\ found # << >> => timerIds < MaxPresses
          /\ IF found # << >>
             THEN /\ handled' = <<Callback("onMouseDown", found[1], << >>, << >>)>>
                  /\ isDragging' = TRUE
                  /\ dragStart' = <<x, y>>
                  /\ dragUnit' = found[1]
                  /\ timerIds' = timerIds + 1
                  /\ timers' = Append(timers, [id |-> timerIds + 1, unit |-> found[1],
                                               due |-> clock + LongPressDelay])
                  /\ longPressTimeout' = timerIds + 1
                  /\ pressed' = Append(pressed, [id |-> timerIds + 1, unit |-> found[1],
                                                 at |-> <<x, y>>])
             ELSE /\ handled' = << >>
                  /\ UNCHANGED <<isDragging, dragStart, dragUnit, timerIds, timers,
                                 longPressTimeout, pressed>>
          /\ gestOp' = [op |-> "mousedown", at |-> <<x, y>>, hit |-> found, id |-> 0]
    /\ UNCHANGED <<hoveredUnit, lastMousePos>>
    /\ UNCHANGED <<storeVars, schedVars, gestureVars, sceneVars, probeVars, callVars, hoverVars>>

\* The "mouseup" listener, for a release at (x, y)
MouseUp(x, y) ==
    /\ timers' = clearTimeout(timers, longPressTimeout)
    /\ longPressTimeout' = 0
    /\ IF isDragging /\ dragUnit # NoUnit
       THEN /\ handled' = <<Callback("onMouseUp", dragUnit, << >>, << >>),
                            Callback("onDrop", dragUnit, dragStart, <<x, y>>)>>
            /\ isDragging' = FALSE
            /\ dragStart' = << >>
            /\ dragUnit' = NoUnit
       ELSE /\ handled' = << >>
            /\ UNCHANGED <<isDragging, dragStart, dragUnit>>
    /\ pressed' = << >>
    /\ gestOp' = [op |-> "mouseup", at |-> <<x, y>>, hit |-> << >>, id |-> 0]
    /\ UNCHANGED <<hoveredUnit, lastMousePos, timerIds>>
    /\ UNCHANGED <<storeVars, schedVars, gestureVars, sceneVars, probeVars, callVars, hoverVars>>

\* The "mousemove" listener, for a move to (x, y)
MouseMove(x, y) ==
    /\ lastMousePos' = <<x, y>>
    /\ handled' = IF isDragging /\ dragUnit # NoUnit
                  THEN <<Callback("onDrag", dragUnit, dragStart, <<x, y>>)>>
                  ELSE << >>
    /\ gestOp' = [op |-> "mousemove", at |-> <<x, y>>, hit |-> << >>, id |-> 0]
    /\ UNCHANGED <<isDragging, dragStart, dragUnit, longPressTimeout, hoveredUnit,
                   timers, timerIds, pressed>>
    /\ UNCHANGED <<storeVars, schedVars, gestureVars, sceneVars, probeVars, callVars, hoverVars>>

\* The "mouseleave" listener: _dragStart is not assigned.
MouseLeave ==
    /\ timers' = clearTimeout(timers, longPressTimeout)
    /\ longPressTimeout' = 0
    /\ isDragging' = FALSE
    /\ dragUnit' = NoUnit
    /\ IF hoveredUnit # NoUnit
       THEN /\ handled' = <<Callback("onMouseLeave", hoveredUnit, << >>, << >>)>>
            /\ hoveredUnit' = NoUnit
       ELSE /\ handled' = << >>
            /\ UNCHANGED hoveredUnit
    /\ lastMousePos' = << >>
    /\ pressed' = << >>
    /\ gestOp' = [op |-> "mouseleave", at |-> << >>, hit |-> << >>, id |-> 0]
    /\ hovering' = HoverOpen(hovering, handled')
    /\ UNCHANGED <<dragStart, timerIds>>
    /\ UNCHANGED <<storeVars, schedVars, gestureVars, sceneVars, probeVars, callVars>>

\* The callback of the k-th pending timer, run when its delay has passed:
\* unit.onLongPress?.(event) on the unit of its press.
LongPressFires(k) ==
    /\ k \in 1..Len(timers)
    /\ timers[k].due <= clock
    /\ handled' = <<Callback("onLongPress", timers[k].unit, << >>, << >>)>>
    /\ timers' = SelectSeq(timers, LAMBDA t : t.id # timers[k].id)
    /\ gestOp' = [op |-> "timeout", at |-> << >>, hit |-> <<timers[k].unit>>,
                  id |-> timers[k].id]
    /\ UNCHANGED <<isDragging, dragStart, dragUnit, longPressTimeout, hoveredUnit,
                   lastMousePos, timerIds, pressed>>
    /\ UNCHANGED <<storeVars, schedVars, gestureVars, sceneVars, probeVars, callVars, hoverVars>>

\* The callback of the task "hover-polling", run by a loop pass.  onHover is
\* called inside the scan, onMouseLeave after it.
HoverPolling ==
    /\ IF lastMousePos = << >>
       THEN /\ handled' = << >>
            /\ UNCHANGED hoveredUnit
       ELSE LET found == ClickScan(units, Len(units), lastMousePos[1], lastMousePos[2])
                newHoveredUnit == IF found = << >> THEN NoUnit ELSE found[1]
            IN /\ handled' =
                    (IF newHoveredUnit # NoUnit /\ newHoveredUnit # hoveredUnit
                     THEN <<Callback("onHover", newHoveredUnit, << >>, lastMousePos)>>
                     ELSE << >>)
                    \o (IF hoveredUnit # NoUnit /\ hoveredUnit # newHoveredUnit
                        THEN <<Callback("onMouseLeave", hoveredUnit, << >>, lastMousePos)>>
                        ELSE << >>)
               /\ hoveredUnit' = newHoveredUnit
    /\ gestOp' = [op |-> "hover-polling", at |-> lastMousePos, hit |-> << >>, id |-> 0]
    /\ hovering' = HoverOpen(hovering, handled')
    /\ UNCHANGED <<isDragging, dragStart, dragUnit, longPressTimeout, lastMousePos,
                   timers, timerIds, pressed>>
    /\ UNCHANGED <<storeVars, schedVars, gestureVars, sceneVars, probeVars, callVars>>

\* Page time passes between two events; a timer runs when it is due, before
\* time moves on.
PointerTimePasses ==
    /\ clock + TimeStep <= MaxPointerTime
    /\ \A k \in 1..Len(timers) : timers[k].due > clock
    /\ clock' = clock + TimeStep
    /\ handled' = << >>
    /\ gestOp' = [op |-> "wait", at |-> << >>, hit |-> << >>, id |-> 0]
    /\ UNCHANGED <<isDragging, dragStart, dragUnit, longPressTimeout, hoveredUnit,
                   lastMousePos, timers, timerIds, pressed>>
    /\ UNCHANGED <<tasks, running, now, pausedChannels, pending, trace, schedOp,
                   frozenAt, frozenNow, frozenBase>>
    /\ UNCHANGED <<storeVars, gestureVars, sceneVars, probeVars, callVars, hoverVars>>

\* The callers of the detector: three units, then pointer events, timers and
\* runs of the hover-polling task in any order.
PointerNext ==
    \/ \E c \in {PointerUnits[n] : n \in {created + 1} \cap DOMAIN PointerUnits} :
          NewUnit(c[1], c[2], c[3])
    \/ \E x \in PointerXs : MouseDown(x, ClickY)
    \/ \E x \in PointerXs : MouseUp(x, ClickY)
    \/ \E x \in PointerXs : MouseMove(x, ClickY)
    \/ MouseLeave
    \/ \E k \in 1..Len(timers) : LongPressFires(k)
    \/ HoverPolling
    \/ PointerTimePasses

\* The callers that move the pointer over units which they add, delete,
\* enable and disable, between runs of the hover-polling task.
HoverNext ==
    \/ \E c \in {PointerUnits[n] : n \in {created + 1} \cap DOMAIN PointerUnits} :
          NewUnit(c[1], c[2], c[3])
    \/ \E i \in 10..Len(units) : Unit_delete(i)
    \/ \E i \in 10..Len(units), enabled \in BOOLEAN : SetEnabled(i, enabled)
    \/ \E x \in PointerXs : MouseMove(x, ClickY)
    \/ MouseLeave
    \/ HoverPolling

(***************************************************************************)
(*                     The callers of unit.hitTest                         *)
(***************************************************************************)

\* The positions and sizes of the unit whose hitTest is tried (the defaults
\* of the constructor among them) and the coordinates of the points: inside,
\* outside and on every edge of each box.
ProbePositions == {0, 10}
ProbeSizes == {[width |-> 100, height |-> 100], [width |-> 2, height |-> 2],
               [width |-> 3, height |-> 1], [width |-> 0, height |-> 0]}
ProbeUnits ==
    {[pos |-> [x |-> px, y |-> py], size |-> size] :
        px \in ProbePositions, py \in ProbePositions, size \in ProbeSizes}
ProbeCoordinates == {-1, 0, 1, 2, 3, 4, 9, 10, 11, 12, 13, 14, 50, 109, 110, 111, 200}

\* probeUnit.hitTest(x, y) by the callers
Unit_hitTest(x, y) ==
    /\ probeAt' = <<x, y>>
    /\ probeHit' = hitTest(probeUnit, x, y)
    /\ UNCHANGED <<storeVars, schedVars, gestureVars, sceneVars, pointerVars, probeUnit, callVars, hoverVars>>

HitTestNext ==
    \E x \in ProbeCoordinates, y \in ProbeCoordinates : Unit_hitTest(x, y)

(***************************************************************************)
(*        DataStore.set step by step, with listeners that call set         *)
(***************************************************************************)

\* Bound on the depth of the calls of set inside one another.
MaxDepth == 4

\* The values the callers hand to set here.
SetValues == {"zero", "one"}

\* The listeners the callers register here.  "L1" and "L2" return.  "A2B"
\* is a listener of "k1" that hands what it got to set("k2", ...): the
\* updatePosition of a unit B bound to a unit A at the same place, with "k1"
\* for A's position key and "k2" for B's.  "B2A" is the same the other way.
\* "Clamp" is a listener that calls set("k1", "zero") when it is handed
\* another value.
SetCallbacks == {"L1", "L2", "A2B", "B2A", "Clamp"}

\* The key a binding listener is registered under, and the one it sets.
SourceKey(fn) == IF fn = "A2B" THEN "k1" ELSE "k2"

\* A listener that calls set only when the store holds another value.
CallbackSets_IfChanged(fn, value) ==
    CASE fn = "A2B" -> IF DataRead(data, "k2") # value THEN <<"k2", value>> ELSE << >>
      [] fn = "B2A" -> IF DataRead(data, "k1") # value THEN <<"k1", value>> ELSE << >>
      [] fn = "Clamp" -> IF value # "zero" THEN <<"k1", "zero">> ELSE << >>
      [] OTHER -> << >>

\* The call of set that fn(value) makes: <<key, value>>, or << >> for none.
CallbackSets(fn, value) ==
    CASE fn = "A2B" -> <<"k2", value>>
      [] fn = "B2A" -> <<"k1", value>>
      [] fn = "Clamp" -> IF value # "zero" THEN <<"k1", "zero">> ELSE << >>
      [] OTHER -> << >>

\* otherUnit.pos as updatePosition reads it: the position last published
\* under the key, or the one of the constructor.
PosOf(d, key) == IF key \in DOMAIN d THEN d[key] ELSE "zero"

\* One call in progress: set(key, value) with the array forEach walks, the
\* number of listeners it has called and the number of calls it is nested
\* in, itself included; the first placement of a binding is a call of its
\* updatePosition alone.
Frame(op, key, value, lst, depth) ==
    [op |-> op, key |-> key, value |-> value, lst |-> lst, i |-> 0, depth |-> depth]

\* An entry of the history: what happened, in which call (depth), to which
\* key, listener and value; n is the number of listeners of a set.
Event(ev, depth, key, fn, value, n) ==
    [ev |-> ev, depth |-> depth, key |-> key, fn |-> fn, value |-> value, n |-> n]

\* A nested set that is put off until the calls in progress are over.
Nested_Deferred(stk, frame) == <<frame>> \o stk

\* A nested set runs at once, inside the listener that calls it.
Nested(stk, frame) == Append(stk, frame)

\* The callers call store.set(key, value): this._data[key] = value, and the
\* forEach over this._listeners[key] begins.
Set_Begin(key, value) ==
    /\ stack = << >>
    /\ data' = [k \in DOMAIN data \cup {key} |-> IF k = key THEN value ELSE data[k]]
    /\ written' = [k \in DOMAIN written \cup {key} |-> IF k = key THEN value ELSE written[k]]
    /\ stack' = <<Frame("set", key, value, ListenersOf(listeners, key), 1)>>
    /\ events' = <<Event("set", 1, key, "-", value, Len(ListenersOf(listeners, key)))>>
    /\ lastOp' = [op |-> "set", key |-> key, arg |-> value, outcome |-> "running", ret |-> "-"]
    /\ calls' = << >>
    /\ UNCHANGED listeners
    /\ UNCHANGED <<schedVars, gestureVars, sceneVars, pointerVars, probeVars, hoverVars>>

\* The callers bind B to A ("A2B") or A to B ("B2A"): bindPositionRelativeTo
\* registers the closure under the other unit's key and calls it once.
Bind_Begin(fn) ==
    /\ stack = << >>
    /\ Len(ListenersOf(listeners, SourceKey(fn))) < MaxListeners
    /\ listeners' = [k \in DOMAIN listeners \cup {SourceKey(fn)} |->
                        IF k = SourceKey(fn)
                        THEN Append(ListenersOf(listeners, SourceKey(fn)), fn)
                        ELSE listeners[k]]
    /\ stack' = <<Frame("bind", SourceKey(fn), PosOf(data, SourceKey(fn)), <<fn>>, 1)>>
    /\ events' = <<Event("bind", 1, SourceKey(fn), fn, PosOf(data, SourceKey(fn)), 1)>>
    /\ lastOp' = [op |-> "bind", key |-> SourceKey(fn), arg |-> fn, outcome |-> "running",
                  ret |-> "-"]
    /\ calls' = << >>
    /\ UNCHANGED <<data, written>>
    /\ UNCHANGED <<schedVars, gestureVars, sceneVars, pointerVars, probeVars, hoverVars>>

\* The forEach of the innermost call invokes its next listener, fn(value).
\* A listener that calls set makes the assignment and starts the forEach of
\* that set; the others return.
Set_Callback ==
    /\ stack # << >>
    /\ LET d == Len(stack)
           top == stack[d]
       IN /\ top.i < Len(top.lst)
          /\ LET fn == top.lst[top.i + 1]
                 made == CallbackSets(fn, top.value)
                 here == [stack EXCEPT ![d].i = top.i + 1]
                 called == Append(events, Event("call", top.depth, top.key, fn, top.value, 0))
             IN IF made = << >>
                THEN /\ stack' = here
                     /\ events' = Append(called,
                                         Event("ret", top.depth, top.key, fn, top.value, 0))
                     /\ calls' = Append(calls, <<fn, top.value>>)
                     /\ UNCHANGED <<data, written>>
                ELSE /\ d < MaxDepth
                     /\ data' = [k \in DOMAIN data \cup {made[1]} |->
                                    IF k = made[1] THEN made[2] ELSE data[k]]
                     /\ written' = [k \in DOMAIN written \cup {made[1]} |->
                                       IF k = made[1] THEN made[2] ELSE written[k]]
                     /\ stack' = Nested(here, Frame("set", made[1], made[2],
                                                    ListenersOf(listeners, made[1]),
                                                    top.depth + 1))
                     /\ events' = Append(called,
                                         Event("set", top.depth + 1, made[1], "-", made[2],
                                               Len(ListenersOf(listeners, made[1]))))
                     /\ calls' = Append(calls, <<fn, top.value>>)
    /\ UNCHANGED <<listeners, lastOp>>
    /\ UNCHANGED <<schedVars, gestureVars, sceneVars, pointerVars, probeVars, hoverVars>>

\* The forEach of the innermost call is over: the call returns, and with it
\* the listener that made it, if one did.
Set_Return ==
    /\ stack # << >>
    /\ LET d == Len(stack)
           top == stack[d]
           ended == Append(events,
                           Event("end", top.depth, top.key, "-", top.value, Len(top.lst)))
       IN /\ top.i = Len(top.lst)
          /\ \A k \in 1..(d - 1) : stack[k].i > 0   \* each call beneath is inside a listener
          /\ stack' = SubSeq(stack, 1, d - 1)
          /\ events' = IF d > 1
                       THEN Append(ended, Event("ret", stack[d - 1].depth, stack[d - 1].key,
                                                stack[d - 1].lst[stack[d - 1].i],
                                                stack[d - 1].value, 0))
                       ELSE ended
          /\ lastOp' = IF d = 1 THEN [lastOp EXCEPT !.outcome = "returned"] ELSE lastOp
    /\ UNCHANGED <<data, listeners, calls, written>>
    /\ UNCHANGED <<schedVars, gestureVars, sceneVars, pointerVars, probeVars, hoverVars>>

\* The callers of the store, between two of their calls: they register the
\* plain listeners and "Clamp", bind the two keys to one another, and set.
ReentrantNext ==
    \/ \E key \in Keys, fn \in {"L1", "L2", "Clamp"} :
          stack = << >> /\ DataStore_onChange(key, fn)
    \/ \E fn \in {"A2B", "B2A"} : Bind_Begin(fn)
    \/ \E key \in Keys, value \in SetValues : Set_Begin(key, value)
    \/ Set_Callback
    \/ Set_Return

(***************************************************************************)
(*                           Specifications                                *)
(***************************************************************************)

\* The state after construction: new DataStore() and new TaskScheduler() at
\* page time 0 with no loop requested, and the unit list of new Context(...),
\* the nine anchors in row order.
Init ==
    /\ data = << >>
    /\ listeners = << >>
    /\ calls = << >>
    /\ written = << >>
    /\ lastOp = [op |-> "new", key |-> "-", arg |-> "-", outcome |-> "returned", ret |-> "-"]
    /\ tasks = << >>
    /\ running = FALSE
    /\ now = 0
    /\ pausedChannels = {}
    /\ clock = 0
    /\ pending = 0
    /\ trace = << >>
    /\ schedOp = NoOp
    /\ frozenAt = NeverFrozen
    /\ frozenNow = NeverFrozen
    /\ frozenBase = NeverFrozen
    /\ units = [i \in 1..9 |-> AnchorUnit((i - 1) \div 3, (i - 1) % 3)]
    /\ zSorted = FALSE
    /\ created = 0
    /\ clickAt = << >>
    /\ clicked = << >>
    /\ drawn = << >>
    /\ detached = << >>
    /\ binds = 0
    /\ canvas = [width |-> CanvasWidth, height |-> CanvasHeight]
    /\ sceneOp = NoOp
    /\ isDragging = FALSE
    /\ dragStart = << >>
    /\ dragUnit = NoUnit
    /\ longPressTimeout = 0
    /\ hoveredUnit = NoUnit
    /\ lastMousePos = << >>
    /\ timers = << >>
    /\ timerIds = 0
    /\ pressed = << >>
    /\ handled = << >>
    /\ gestOp = NoOp
    /\ probeUnit = DefaultUnit
    /\ probeAt = << >>
    /\ probeHit = FALSE
    /\ stack = << >>
    /\ events = << >>
    /\ hovering = {}

\* The state after new DataStore(), new TaskScheduler() and new Context(...):
\* the constructor has set SIZE_STORE_KEY, registered setupAnchors under it and
\* called resizeCanvasToMatch, which published the size; setupAnchors has made
\* the nine anchors and published the pos of each.
\* The heap when the Context constructor returns: store.set(SIZE_STORE_KEY,
\* {}), store.onChange(SIZE_STORE_KEY, setupAnchors) and resizeCanvasToMatch()
\* on an empty unit list, the canvas taking the size of its container.
Context_constructor ==
    set([units |-> << >>, detached |-> << >>,
         data |-> (SIZE_STORE_KEY :> << >>), calls |-> << >>, threw |-> FALSE],
        (SIZE_STORE_KEY :> <<setupAnchorsListener>>),
        SIZE_STORE_KEY, [width |-> CanvasWidth, height |-> CanvasHeight])

InitScene ==
    /\ units = Context_constructor.units
    /\ data = Context_constructor.data
    /\ listeners = [key \in {SIZE_STORE_KEY} |-> <<setupAnchorsListener>>]
    /\ calls = << >>
    /\ written = << >>
    /\ lastOp = [op |-> "new", key |-> "-", arg |-> "-", outcome |-> "returned", ret |-> "-"]
    /\ tasks = << >>
    /\ running = FALSE
    /\ now = 0
    /\ pausedChannels = {}
    /\ clock = 0
    /\ pending = 0
    /\ trace = << >>
    /\ schedOp = NoOp
    /\ frozenAt = NeverFrozen
    /\ frozenNow = NeverFrozen
    /\ frozenBase = NeverFrozen
    /\ zSorted = FALSE
    /\ created = 0
    /\ clickAt = << >>
    /\ clicked = << >>
    /\ drawn = << >>
    /\ detached = << >>
    /\ binds = 0
    /\ canvas = [width |-> CanvasWidth, height |-> CanvasHeight]
    /\ sceneOp = NoOp
    /\ isDragging = FALSE
    /\ dragStart = << >>
    /\ dragUnit = NoUnit
    /\ longPressTimeout = 0
    /\ hoveredUnit = NoUnit
    /\ lastMousePos = << >>
    /\ timers = << >>
    /\ timerIds = 0
    /\ pressed = << >>
    /\ handled = << >>
    /\ gestOp = NoOp
    /\ probeUnit = DefaultUnit
    /\ probeAt = << >>
    /\ probeHit = FALSE
    /\ stack = << >>
    /\ events = << >>
    /\ hovering = {}

SpecStore == Init /\ [][StoreNext]_vars

SpecScene == InitScene /\ [][SceneNext]_vars

SpecPlacement == InitScene /\ [][PlacementNext]_vars

SpecBind == InitScene /\ [][BindNext]_vars

SpecAnchors == InitScene /\ [][AnchorNext]_vars

SpecScheduler == Init /\ [][SchedNext]_vars

SpecGesture == Init /\ [][GestureNext]_vars

SpecTick == Init /\ [][TickNext]_vars

SpecLoop == Init /\ [][LoopNext]_vars

SpecReplace == Init /\ [][ReplaceNext]_vars

SpecPointer == Init /\ [][PointerNext]_vars

SpecHover == Init /\ [][HoverNext]_vars

SpecDelete == Init /\ [][DeleteNext]_vars

SpecReentrant == Init /\ [][ReentrantNext]_vars

\* The same with the calls in progress going on: the page runs a call to its
\* end before anything else.
SpecReentrantRun ==
    Init /\ [][ReentrantNext]_vars /\ WF_vars(Set_Callback) /\ WF_vars(Set_Return)

\* The callers of hitTest start with any of the units of ProbeUnits.
InitHitTest ==
    /\ data = << >>
    /\ listeners = << >>
    /\ calls = << >>
    /\ written = << >>
    /\ lastOp = [op |-> "new", key |-> "-", arg |-> "-", outcome |-> "returned", ret |-> "-"]
    /\ tasks = << >>
    /\ running = FALSE
    /\ now = 0
    /\ pausedChannels = {}
    /\ clock = 0
    /\ pending = 0
    /\ trace = << >>
    /\ schedOp = NoOp
    /\ frozenAt = NeverFrozen
    /\ frozenNow = NeverFrozen
    /\ frozenBase = NeverFrozen
    /\ units = [i \in 1..9 |-> AnchorUnit((i - 1) \div 3, (i - 1) % 3)]
    /\ zSorted = FALSE
    /\ created = 0
    /\ clickAt = << >>
    /\ clicked = << >>
    /\ drawn = << >>
    /\ detached = << >>
    /\ binds = 0
    /\ canvas = [width |-> CanvasWidth, height |-> CanvasHeight]
    /\ sceneOp = NoOp
    /\ isDragging = FALSE
    /\ dragStart = << >>
    /\ dragUnit = NoUnit
    /\ longPressTimeout = 0
    /\ hoveredUnit = NoUnit
    /\ lastMousePos = << >>
    /\ timers = << >>
    /\ timerIds = 0
    /\ pressed = << >>
    /\ handled = << >>
    /\ gestOp = NoOp
    /\ probeUnit \in ProbeUnits
    /\ probeAt = << >>
    /\ probeHit = FALSE
    /\ stack = << >>
    /\ events = << >>
    /\ hovering = {}

SpecHitTest == InitHitTest /\ [][HitTestNext]_vars

(***************************************************************************)
(*                     Properties of the DataStore                         *)
(***************************************************************************)

\* C1 (store fan-out): when set(k, v) returns, the listeners registered for k
\* and not removed were each invoked once with v, in registration order, and
\* nothing else was invoked; after removeOnChange(k, fn), fn is not among the
\* listeners of k any more.
C1_StoreFanOut ==
    /\ (lastOp.op = "set" /\ lastOp.outcome = "returned") =>
          /\ Len(calls) = Len(ListenersOf(listeners, lastOp.key))
          /\ \A i \in 1..Len(calls) :
                calls[i] = <<ListenersOf(listeners, lastOp.key)[i], lastOp.arg>>
    /\ lastOp.op = "removeOnChange" =>
          \A i \in 1..Len(ListenersOf(listeners, lastOp.key)) :
                ListenersOf(listeners, lastOp.key)[i] # lastOp.arg

\* C1 witness: a set that returned after notifying two different listeners of
\* its key in registration order, while the other key holds a listener that
\* was not called.
C1_Witness ==
    /\ lastOp.op = "set" /\ lastOp.outcome = "returned"
    /\ Len(calls) = 2 /\ calls[1][1] = "L2" /\ calls[2][1] = "L1"
    /\ \E k \in DOMAIN listeners : k # lastOp.key /\ listeners[k] = <<"LThrow">>

\* C2 as originally stated (read-after-write for every value, null and
\* undefined included): a get of a key that was set returns the value of the
\* most recent set.
C2_ReadAfterWriteAnyValue ==
    (lastOp.op = "get" /\ lastOp.key \in DOMAIN written) =>
        (lastOp.outcome = "returned" /\ lastOp.ret = written[lastOp.key])

\* C2 as amended: a get of a key that was set returns the value of the most
\* recent set when that value is neither null nor undefined (falsy values
\* included), and raises the missing-key error when it is null or undefined;
\* it never returns anything else.
C2_ReadAfterWrite ==
    (lastOp.op = "get" /\ lastOp.key \in DOMAIN written) =>
        IF written[lastOp.key] \in {"null", "undefined"}
        THEN lastOp.outcome = "threw"
        ELSE lastOp.outcome = "returned" /\ lastOp.ret = written[lastOp.key]

\* C2 witness: a get that returned a falsy value stored by an earlier set.
C2_Witness ==
    /\ lastOp.op = "get" /\ lastOp.outcome = "returned"
    /\ lastOp.key \in DOMAIN written
    /\ lastOp.ret \in {"zero", "false"}

\* C3 (missing key fails): a get of a key that was never set raises, and the
\* step changes neither the data nor any listener list; a key with listeners
\* but no set is still missing.
C3_MissingKeyFails ==
    [][(lastOp'.op = "get" /\ lastOp'.key \notin DOMAIN written') =>
          (lastOp'.outcome = "threw" /\ data' = data /\ listeners' = listeners)]_vars

\* C3 witness: a get that raised on a key never set, for which a listener is
\* registered.
C3_Witness ==
    /\ lastOp.op = "get" /\ lastOp.outcome = "threw"
    /\ lastOp.key \notin DOMAIN written
    /\ Len(ListenersOf(listeners, lastOp.key)) > 0

\* C4 (listener isolation), as claimed: every set returns to its caller and
\* has invoked every listener of its key, also when one of them raised.
C4_ListenerIsolation ==
    lastOp.op = "set" =>
        /\ lastOp.outcome = "returned"
        /\ Len(calls) = Len(ListenersOf(listeners, lastOp.key))

(***************************************************************************)
(*                   Properties of the TaskScheduler                       *)
(***************************************************************************)

\* C5 (scheduler callback isolation), as claimed: the scheduler is never
\* running without a loop callback waiting for the next frame, and after a
\* frame no task that is due and on no paused channel has been left unrun.
C5_CallbackIsolation ==
    /\ running => pending > 0
    /\ trace # << >> =>
          \A i \in 1..Len(tasks) :
             \/ tasks[i].channels \cap pausedChannels # {}
             \/ tasks[i].lastRun = now
             \/ now - tasks[i].lastRun < tasks[i].delay

\* C6 (task uniqueness): the task list never holds two tasks of one name, and
\* right after add / addAnim the one task of that name is the new one, last in
\* the list, with the arguments of the call and fresh timing state.
C6_TaskUniqueness ==
    /\ \A i, j \in 1..Len(tasks) : tasks[i].name = tasks[j].name => i = j
    /\ schedOp.op = "add" =>
          /\ Cardinality({i \in 1..Len(tasks) : tasks[i].name = schedOp.name}) = 1
          /\ LET t == tasks[Len(tasks)]
             IN /\ t.name = schedOp.name /\ t.kind = "plain"
                /\ t.delay = schedOp.delay /\ t.repeat = schedOp.repeat
                /\ t.remaining = schedOp.repeat /\ t.fn = schedOp.fn
                /\ t.channels = schedOp.channels
                /\ t.lastRun = clock /\ t.pausedAt = NoTime
    /\ schedOp.op = "addAnim" =>
          /\ Cardinality({i \in 1..Len(tasks) : tasks[i].name = schedOp.name}) = 1
          /\ LET t == tasks[Len(tasks)]
             IN /\ t.name = schedOp.name /\ t.kind = "anim"
                /\ t.startVal = schedOp.startVal /\ t.endVal = schedOp.endVal
                /\ t.duration = schedOp.duration /\ t.fn = schedOp.fn
                /\ t.channels = schedOp.channels
                /\ t.animStart = clock /\ t.lastRun = clock
                /\ t.pausedAt = NoTime /\ t.totalPausedTime = 0

\* C6 witness: an addAnim has just replaced a task of the same name while a
\* task of the other name is scheduled too.
C6_Witness ==
    /\ schedOp.op = "addAnim" /\ schedOp.replaced
    /\ Len(tasks) = 2

\* C7 (pause/resume time correction), as claimed: when resume(X) releases a
\* plain task on the one channel X that a pause(X) had frozen, its lastRun has
\* moved forward by exactly the duration P of the pause, the page time from
\* the pause to this resume, so that it is due at its original due time + P
\* (stated for a scheduler whose loop has been started).
C7_PauseResumeCorrection ==
    [][\A channel \in Channels :
          (running /\ TaskScheduler_resume(channel)) =>
             \A i \in 1..Len(tasks) :
                ( /\ tasks[i].kind = "plain"
                  /\ tasks[i].channels = {channel}
                  /\ frozenAt[tasks[i].name] # NoTime )
                => tasks'[i].lastRun = tasks[i].lastRun + (clock - frozenAt[tasks[i].name])]_vars

\* C8 (channel pause isolation): in a loop pass, a task is skipped exactly when
\* one of its channels is paused, and a task none of whose channels is paused
\* has its callback invoked exactly when now - lastRun >= delay; a pause(X)
\* leaves every task that does not carry X as it was.
C8_ChannelPauseIsolation ==
    /\ [](\A i \in 1..Len(trace) :
            /\ trace[i].did = "skipped" <=> trace[i].channels \cap pausedChannels # {}
            /\ trace[i].channels \cap pausedChannels = {} =>
                  (trace[i].did \in {"ran", "threw"}
                     <=> trace[i].at - trace[i].lastRun >= trace[i].delay))
    /\ [][\A channel \in Channels :
            TaskScheduler_pause(channel) =>
               /\ Len(tasks') = Len(tasks)
               /\ \A i \in 1..Len(tasks) :
                     channel \notin tasks[i].channels => tasks'[i] = tasks[i]]_vars

\* C8 witness: a pass under a paused channel that skipped a task carrying it
\* and ran a due task that does not carry it.
C8_Witness ==
    /\ pausedChannels # {}
    /\ \E i, j \in 1..Len(trace) :
          /\ trace[i].did = "skipped"
          /\ trace[j].did = "ran" /\ trace[j].kind = "plain"

\* C9 (animation completion): whenever an animation is run, its callback gets
\* start + (end - start) * elapsed / duration with elapsed clamped to
\* [0, duration]: the start value 0 at elapsed <= 0, the end value 10 at
\* elapsed >= duration; a run at elapsed >= duration whose callback returns
\* removes the task, a run at elapsed < duration leaves it scheduled.
C9_AnimationCompletion ==
    \A i \in 1..Len(trace) :
       (trace[i].kind = "anim" /\ trace[i].did \in {"ran", "threw"}) =>
          LET e == trace[i]
              scheduled == \E j \in 1..Len(tasks) : tasks[j].name = e.name
          IN /\ e.value[2] = e.duration
             /\ e.elapsed <= 0 => e.value[1] = e.startVal * e.duration
             /\ e.elapsed >= e.duration => e.value[1] = e.endVal * e.duration
             /\ (e.elapsed > 0 /\ e.elapsed < e.duration) =>
                   e.value[1] = e.startVal * e.duration
                                  + (e.endVal - e.startVal) * e.elapsed
             /\ (e.did = "ran" /\ e.elapsed >= e.duration) => ~scheduled
             /\ (e.did = "ran" /\ e.elapsed < e.duration) => scheduled

\* C9 witness: an animation from 0 to 10 was run at elapsed = duration, handed
\* 10 to its callback and is no longer scheduled.
C9_Witness ==
    \E i \in 1..Len(trace) :
       /\ trace[i].kind = "anim" /\ trace[i].did = "ran"
       /\ trace[i].elapsed = trace[i].duration
       /\ trace[i].value = <<10 * trace[i].duration, trace[i].duration>>
       /\ \A j \in 1..Len(tasks) : tasks[j].name # trace[i].name

\* An animation has been run at elapsed = 0 and handed 0 to its callback.
C9_StartSampled ==
    \E i \in 1..Len(trace) :
       /\ trace[i].kind = "anim" /\ trace[i].did = "ran"
       /\ trace[i].elapsed = 0 /\ trace[i].value[1] = 0

\* C17 (hard reset): right after stop() the scheduler is not running, no
\* channel is paused and the task list is empty, whatever it held before; a
\* loop callback that fires while the scheduler is not running runs no task
\* and requests no frame, and only start() or resume() makes the scheduler
\* run or request a frame again.
C17_HardReset ==
    /\ [](schedOp.op = "stop" => (~running /\ pausedChannels = {} /\ tasks = << >>))
    /\ [][(~running /\ AnimationFrame) =>
            (pending' = 0 /\ tasks' = tasks /\ trace' = << >> /\ ~running')]_vars
    /\ [][(~running /\ (running' \/ pending' > pending)) =>
            (TaskScheduler_start \/ \E channel \in Channels : TaskScheduler_resume(channel))]_vars

\* C17 witness: stop() has just halted a running scheduler that held two tasks
\* and a paused channel, with a loop callback still waiting for its frame.
C17_Witness ==
    /\ schedOp.op = "stop" /\ schedOp.wasRunning
    /\ schedOp.discarded = 2 /\ schedOp.cleared # {}
    /\ pending > 0

\* The callback left waiting by a stop() has fired and requested nothing.
C17_LoopEnded ==
    /\ ~running /\ pending = 0 /\ now < clock /\ tasks = << >> /\ schedOp = NoOp
    /\ clock > 1

\* C18 (stop of one channel): stop(X) leaves in the list exactly the tasks
\* whose channel set does not contain X, in their order and each as it was
\* (timing state and remaining repeats included), and changes neither the
\* running flag, nor the loop callbacks requested, nor the paused state of
\* any channel other than X.
C18_ChannelStop ==
    [][\A channel \in Channels :
          TaskScheduler_stopChannel(channel) =>
             /\ tasks' = SelectSeq(tasks, LAMBDA t : channel \notin t.channels)
             /\ running' = running
             /\ pending' = pending
             /\ pausedChannels' \ {channel} = pausedChannels \ {channel}]_vars

\* C18 witness: a stop(X) on a running scheduler has discarded a task and kept
\* another, with a channel other than X paused before and after.
C18_Witness ==
    /\ schedOp.op = "stopChannel" /\ schedOp.discarded > 0
    /\ Len(tasks) > 0 /\ running
    /\ pausedChannels # {} /\ pausedChannels = schedOp.wasPaused

\* C19 (resume restarts a stopped loop): a resume on a scheduler that is not
\* running leaves it running with one more loop callback requested; a resume
\* on a running scheduler requests none; and a frame that fires while the
\* scheduler is running takes the frame's timestamp and starts its pass at the
\* first task of the list.
C19_ResumeRestarts ==
    /\ [][\A channel \in Channels :
            TaskScheduler_resume(channel) =>
               /\ running'
               /\ ~running => pending' = pending + 1
               /\ running => pending' = pending]_vars
    /\ [][(running /\ AnimationFrame) =>
            /\ now' = clock'
            /\ tasks # << >> => (trace' # << >> /\ trace'[1].name = tasks[1].name)]_vars

\* C19 witness: a resume has just found the scheduler halted and left it
\* running with a loop callback requested.
C19_Witness ==
    /\ schedOp.op = "resume" /\ ~schedOp.wasRunning
    /\ running /\ pending = 1

\* A task added after such a restart has been run by a later frame.
C19_RanAfterRestart ==
    /\ running /\ pausedChannels = {}
    /\ \E i \in 1..Len(trace) : trace[i].did = "ran" /\ trace[i].lastRun > 0

(***************************************************************************)
(*                   Properties of the click dispatch                      *)
(***************************************************************************)

\* The indexes of the enabled units of the list that the clicked point hits.
HitAt == {i \in 1..Len(units) : clickAt # << >> /\ units[i].enabled
                                 /\ hitTest(units[i], clickAt[1], clickAt[2])}

\* The registration number of a unit: anchors 1..9 in construction order,
\* then the callers' units.
RegOf(u) == IF u.name[1] = "Unit" THEN 9 + u.name[2]
            ELSE CHOOSE i \in 1..9 : AnchorUnit((i - 1) \div 3, (i - 1) % 3).name = u.name

UnitNamed(name) == units[CHOOSE i \in 1..Len(units) : units[i].name = name]

\* C20 (render contract), as claimed: a render pass clears the background
\* first and then draws exactly the enabled units, each once, in ascending
\* zOrder.
C20_RenderEnabledOnly ==
    drawn # << >> =>
       /\ drawn[1].op = "fillRect"
       /\ \A i \in 2..Len(drawn) : drawn[i].op = "draw"
       /\ {drawn[i].name : i \in 2..Len(drawn)}
             = {units[i].name : i \in {j \in 1..Len(units) : units[j].enabled}}
       /\ \A i, j \in 2..Len(drawn) :
             /\ drawn[i].name = drawn[j].name => i = j
             /\ i < j => UnitNamed(drawn[i].name).zOrder <= UnitNamed(drawn[j].name).zOrder

\* C20, amended: a render pass clears the background first and then draws
\* every unit of the context, enabled or not, each once, in ascending zOrder,
\* units of equal zOrder in the order the list held them before the pass; and
\* it leaves the list in that order.
C20_RenderAll ==
    /\ [](drawn # << >> =>
            /\ drawn[1].op = "fillRect"
            /\ Len(drawn) = Len(units) + 1
            /\ \A i \in 1..Len(units) :
                  drawn[i + 1].op = "draw" /\ drawn[i + 1].name = units[i].name
            /\ \A i, j \in 1..Len(units) :
                  /\ units[i].name = units[j].name => i = j
                  /\ i < j => units[i].zOrder <= units[j].zOrder)
    /\ [][Render =>
            \A i, j \in 1..Len(units) :
               (i < j /\ units[i].zOrder = units[j].zOrder) =>
                  \E k, l \in 1..Len(units') :
                     k < l /\ units'[k] = units[i] /\ units'[l] = units[j]]_vars

\* C20 witness: a render pass has drawn a disabled unit, and a unit of zOrder
\* 1 constructed before a unit of zOrder 0 after it.
C20_Witness ==
    /\ drawn # << >>
    /\ \E i \in 10..Len(units) : ~units[i].enabled
    /\ \E i, j \in 10..Len(units) :
          i < j /\ units[i].zOrder = 0 /\ units[j].zOrder = 1
                /\ RegOf(units[i]) > RegOf(units[j])

(***************************************************************************)
(*            Properties of Unit.update, binding and deletion              *)
(***************************************************************************)

\* The unit object called name, in the list or taken off it.
ObjectNamed(name) ==
    IF IndexOf(units, name) # {} THEN UnitNamed(name) ELSE detached[name]

\* The closures updatePosition called in the operation just made, in order.
Fired == SelectSeq(calls, LAMBDA c : c.fn.kind = "updatePosition")

\* The unit called self stands where the placement rule of the direction,
\* plus the offset, puts it against the unit called other: flush against an
\* edge of other on an axis, or centred on other on that axis.
Placed(self, other, direction, offset) ==
    LET dx == IF "x" \in DOMAIN offset THEN offset.x ELSE 0
        dy == IF "y" \in DOMAIN offset THEN offset.y ELSE 0
        x == self.pos.x - dx
        y == self.pos.y - dy
    IN /\ CASE direction \in {"top-left", "bottom-left", "left"} ->
                  x + self.size.width = other.pos.x
            [] direction \in {"top-right", "bottom-right", "right"} ->
                  x = other.pos.x + other.size.width
            [] OTHER -> 2 * x + self.size.width = 2 * other.pos.x + other.size.width
       /\ CASE direction \in {"top-left", "top-right", "top"} ->
                  y + self.size.height = other.pos.y
            [] direction \in {"bottom-left", "bottom-right", "bottom"} ->
                  y = other.pos.y + other.size.height
            [] OTHER -> 2 * y + self.size.height = 2 * other.pos.y + other.size.height

\* The closures updatePosition that the store holds for the unit called name,
\* each with its key.
ClosuresOf(ls, name) ==
    UNION {{<<key, ls[key][k]>> :
               k \in {n \in 1..Len(ls[key]) : /\ ls[key][n].kind = "updatePosition"
                                              /\ ls[key][n].self = name}} :
           key \in DOMAIN ls}

\* The units that move with the units called names: those with one binding,
\* to a unit that moves, through at most n bindings.
RECURSIVE MovedWith(_, _)
MovedWith(names, n) ==
    IF n = 0 THEN names
    ELSE MovedWith(names \cup
                     {units[i].name :
                         i \in {j \in 10..Len(units) :
                                  /\ Len(units[j].boundPositionListeners) = 7
                                  /\ units[j].boundPositionListeners[1].fn.other \in names}},
                   n - 1)

\* C11 (position binding propagates synchronously): when A.update("pos", p)
\* returns, every unit B with one binding, to A, stands where the binding
\* puts it against A as A now is (for "right" and {x: 5}: B.pos.x = A.pos.x +
\* A.size.width + 5), and the store holds B.pos under "<B.name>::pos"; so
\* does every unit with one binding to such a B, and so on; and the same when
\* resizeCanvasToMatch returns, for the units bound to an anchor.
C11_BindingPropagates ==
    LET base == IF sceneOp.op = "update" /\ sceneOp.attr = "pos" THEN {sceneOp.unit}
                ELSE IF sceneOp.op = "resize" THEN {units[i].name : i \in 1..9}
                ELSE {}
        moved == MovedWith(base, 3) \ base
    IN \A i \in 10..Len(units) :
          units[i].name \in moved =>
             LET fn == units[i].boundPositionListeners[1].fn
                 other == ObjectNamed(fn.other)
             IN /\ Placed(units[i], other, fn.direction, fn.offset)
                /\ (fn.direction = "right" /\ fn.offset = [x |-> 5]) =>
                      units[i].pos.x = other.pos.x + other.size.width + 5
                /\ getAttributeStoreName(units[i].name, "pos") \in DOMAIN data
                /\ data[getAttributeStoreName(units[i].name, "pos")] = units[i].pos

\* C11 witness: the first unit has just been moved to x = 3 by update, the
\* second is bound to its right and the third to the right of the second.
C11_Witness ==
    /\ sceneOp.op = "update" /\ sceneOp.attr = "pos" /\ sceneOp.unit = <<"Unit", 1>>
    /\ Len(units) = 12 /\ units[10].pos.x = 3
    /\ MovedWith({<<"Unit", 1>>}, 3) = {<<"Unit", 1>>, <<"Unit", 2>>, <<"Unit", 3>>}
    /\ units[11].boundPositionListeners[1].fn.direction = "right"
    /\ Len(calls) = 2

\* The canvas has just been resized with a unit bound to the anchor "center"
\* and another bound to that unit.
C11_AnchorMoved ==
    /\ sceneOp.op = "resize" /\ canvas.width = 6
    /\ Len(units) >= 11
    /\ {<<"Unit", 1>>, <<"Unit", 2>>} \subseteq MovedWith({units[i].name : i \in 1..9}, 3)

\* C13 (unbind removes every binding subscription): after
\* unbindPositionRelativeTo() the store holds no closure of the unit under any
\* key, however many bindings the unit had; the call changes no position, no
\* size and no store value, and on a unit without bindings it changes
\* nothing at all; and while the store holds no closure of a unit, no update
\* of another unit or of its own size and no resize moves the unit.
C13_UnbindRemovesAll ==
    /\ [](sceneOp.op = "unbind" => ClosuresOf(listeners, sceneOp.unit) = {})
    /\ [][\A i \in 10..Len(units) :
            Unit_unbindPositionRelativeTo(i) =>
               /\ data' = data /\ Len(units') = Len(units)
               /\ \A j \in 1..Len(units) :
                     /\ units'[j].pos = units[j].pos /\ units'[j].size = units[j].size
                     /\ j # i => ClosuresOf(listeners', units[j].name)
                                    = ClosuresOf(listeners, units[j].name)
               /\ units[i].boundPositionListeners = << >> =>
                     (units' = units /\ listeners' = listeners)]_vars
    /\ [][\A i \in 10..Len(units) :
            ( /\ ClosuresOf(listeners, units[i].name) = {}
              /\ sceneOp'.op \in {"update", "resize"}
              /\ ~(sceneOp'.unit = units[i].name /\ sceneOp'.attr = "pos") )
            => units'[i].pos = units[i].pos]_vars

\* C13 witness: unbindPositionRelativeTo() has just been called on a unit
\* that had been bound twice.
C13_Witness ==
    /\ sceneOp.op = "unbind" /\ sceneOp.had = 14

\* After both bindings were made and removed again, the first unit has been
\* moved by update.
C13_StaysPut ==
    /\ sceneOp.op = "update" /\ sceneOp.unit = <<"Unit", 1>> /\ sceneOp.attr = "pos"
    /\ binds = MaxBinds /\ Len(units) >= 11
    /\ \A i \in 10..Len(units) : ClosuresOf(listeners, units[i].name) = {}

\* C12 (placement rules): when bindPositionRelativeTo returns, and whenever
\* an update has made the closure of a binding compute a position, the bound
\* unit stands where the rule of the binding's direction puts it against the
\* other unit as both now are, plus the offset: corners flush on both axes,
\* left / right / top / bottom flush on one axis and centred on the other,
\* center and an unknown direction centred on both.
C12_PlacementRules ==
    /\ sceneOp.op = "bind" =>
          Placed(ObjectNamed(sceneOp.fn.self), ObjectNamed(sceneOp.fn.other),
                 sceneOp.fn.direction, sceneOp.fn.offset)
    /\ (sceneOp.op = "update" /\ Fired # << >>) =>
          LET fn == Fired[Len(Fired)].fn
          IN Placed(ObjectNamed(fn.self), ObjectNamed(fn.other), fn.direction, fn.offset)

\* C12 witness: a unit 4 wide has just been bound in an unknown direction,
\* with the offset {x: 1, y: 2}, to a unit 2 wide that had been moved.
C12_Witness ==
    /\ sceneOp.op = "bind" /\ sceneOp.fn.direction = "sideways"
    /\ ObjectNamed(sceneOp.fn.self).size.width = 4
    /\ ObjectNamed(sceneOp.fn.other).size.width = 2
    /\ ObjectNamed(sceneOp.fn.other).pos.x = 3

\* A closure bound towards "top-left" has placed its unit again after the
\* other unit was resized.
C12_Replaced ==
    /\ sceneOp.op = "update" /\ sceneOp.attr = "size" /\ sceneOp.unit = <<"Unit", 1>>
    /\ Fired # << >> /\ Fired[1].fn.direction = "top-left"


\* The keys of the store written for the unit called name.
KeysOf(name) == {key \in DOMAIN data : key[1] = name}

\* C14 (deletion): after U.delete(), U is not in the context's unit list, the
\* store holds no position-binding closure of U under any key, and the
\* store's entries "<U.name>::<attr>" are as they were before the call; the
\* call leaves the other units, in their order, and their closures; and no
\* later step changes an entry of a deleted unit.
C14_Deletion ==
    /\ [](sceneOp.op = "delete" =>
            /\ \A i \in 1..Len(units) : units[i].name # sceneOp.unit
            /\ ClosuresOf(listeners, sceneOp.unit) = {})
    /\ [][\A i \in 10..Len(units) :
            Unit_deleteBound(i) =>
               /\ data' = data
               /\ units' = SelectSeq(units, LAMBDA u : u.name # units[i].name)
               /\ \A j \in 1..Len(units) :
                     j # i => ClosuresOf(listeners', units[j].name)
                                 = ClosuresOf(listeners, units[j].name)]_vars
    /\ [][\A name \in DOMAIN detached :
            \A key \in KeysOf(name) : key \in DOMAIN data' /\ data'[key] = data[key]]_vars

\* C14 witness: delete() has just been called on a unit that was bound once
\* and whose position is in the store.
C14_Witness ==
    /\ sceneOp.op = "delete" /\ sceneOp.had = 7
    /\ getAttributeStoreName(sceneOp.unit, "pos") \in DOMAIN data
    /\ sceneOp.unit \in DOMAIN detached

\* C15 (deletion tears down the unit's store subscriptions): no store.set
\* invokes a callback registered by a deleted unit, the handlers of
\* onDataChange registered at construction included.
C15_DeleteTearsDown ==
    \A k \in 1..Len(calls) : calls[k].fn.self \notin DOMAIN detached

\* The handler of onDataChange of a deleted unit has just been called by
\* store.set.
C15_CalledAfterDelete ==
    /\ sceneOp.op = "set"
    /\ \E k \in 1..Len(calls) : /\ calls[k].fn.kind = "onDataChange"
                                /\ calls[k].fn.self \in DOMAIN detached
                                /\ calls[k].value = data[UserKey]

\* What update(attr, value) is to leave: the attribute along the path of
\* attr holds value, the store holds value under "<name>::<attr>", and every
\* listener of that key was called with value.
Mirrored ==
    LET key == getAttributeStoreName(sceneOp.unit, sceneOp.attr)
    IN /\ reduce(ObjectNamed(sceneOp.unit), split(sceneOp.attr)) = sceneOp.value
       /\ key \in DOMAIN data /\ data[key] = sceneOp.value
       /\ \A n \in 1..Len(ListenersOf(listeners, key)) :
             \E k \in 1..Len(calls) : /\ calls[k].fn = ListenersOf(listeners, key)[n]
                                      /\ calls[k].value = sceneOp.value

\* C16 (update mirrors into the store): after unit.update(attr, value) the
\* unit's attribute named by attr holds value, the store holds value under
\* "<name>::<attr>" and the listeners of the key were called with value, for
\* a nested path such as "pos.x" too.
C16_UpdateMirrors ==
    sceneOp.op = "update" => Mirrored

\* The same for the attributes that are no path: "pos" and "size".
C16_TopLevelMirrors ==
    (sceneOp.op = "update" /\ Len(split(sceneOp.attr)) = 1) => Mirrored

\* update("pos.x", 7) has returned: the unit has a property called "pos.x"
\* of value 7, its pos.x is what it was, and the store holds that under
\* "<name>::pos.x".
C16_NestedPathStale ==
    /\ sceneOp.op = "update" /\ sceneOp.attr = "pos.x"
    /\ LET u == ObjectNamed(sceneOp.unit)
       IN /\ u["pos.x"] = 7 /\ u.pos.x # 7
          /\ data[getAttributeStoreName(sceneOp.unit, "pos.x")] = u.pos.x

(***************************************************************************)
(*                  Properties of the Context's anchors                    *)
(***************************************************************************)

\* The places in the unit list of the anchor of row r, column c.
AnchorAt(r, c) ==
    {i \in 1..Len(units) : units[i].name = <<"CONTEXT-ANCHOR-UNIT", anchorNames[r + 1][c + 1]>>}

\* C21 (anchors): after the construction of the Context and after every
\* resize, the unit list holds exactly nine anchors, one of each name, the
\* anchor of row r, column c stands at (width * c / 2, height * r / 2) for
\* the size last published under SIZE_STORE_KEY, which is the canvas's, and
\* the store holds that position under "<anchor name>::pos".
C21_Anchors ==
    /\ Cardinality({i \in 1..Len(units) : units[i].name[1] = "CONTEXT-ANCHOR-UNIT"}) = 9
    /\ data[SIZE_STORE_KEY] = canvas
    /\ \A r \in 0..2, c \in 0..2 :
          /\ Cardinality(AnchorAt(r, c)) = 1
          /\ \A i \in AnchorAt(r, c) :
                /\ 2 * units[i].pos.x = canvas.width * c
                /\ 2 * units[i].pos.y = canvas.height * r
                /\ data[getAttributeStoreName(units[i].name, "pos")] = units[i].pos
                /\ units[i].size = [width |-> 0, height |-> 0]

\* C21 witness: the canvas has just been resized back to the size it had at
\* construction, with a unit of the callers in the list.
C21_Witness ==
    /\ sceneOp.op = "resize"
    /\ canvas = [width |-> CanvasWidth, height |-> CanvasHeight]
    /\ Len(units) > 9
    /\ Len(calls) >= 1

(***************************************************************************)
(*                     Properties of the default hit test                  *)
(***************************************************************************)

\* C22 (default hit test, unrotated and unscaled): hitTest(x, y) is true
\* exactly when pos.x <= x <= pos.x + width and pos.y <= y <= pos.y + height,
\* the boundaries included; for pos (10, 10) and size (100, 100) the point
\* (50, 50) hits and (200, 200) does not.
C22_HitTestBox ==
    probeAt # << >> =>
       LET x == probeAt[1]
           y == probeAt[2]
       IN /\ probeHit <=> /\ probeUnit.pos.x <= x
                          /\ x <= probeUnit.pos.x + probeUnit.size.width
                          /\ probeUnit.pos.y <= y
                          /\ y <= probeUnit.pos.y + probeUnit.size.height
          /\ (probeUnit = DefaultUnit /\ probeAt = <<50, 50>>) => probeHit
          /\ (probeUnit = DefaultUnit /\ probeAt = <<200, 200>>) => ~probeHit

\* C22 witness: the unit of the constructor's defaults has just been tried
\* at its corner (110, 110), a hit.
C22_Witness ==
    /\ probeUnit = DefaultUnit /\ probeAt = <<110, 110>> /\ probeHit

\* The same unit tried at (50, 50), a hit.
C22_InsideHit ==
    /\ probeUnit = DefaultUnit /\ probeAt = <<50, 50>> /\ probeHit

\* The same unit tried at (200, 200), no hit.
C22_OutsideMiss ==
    /\ probeUnit = DefaultUnit /\ probeAt = <<200, 200>> /\ ~probeHit

(***************************************************************************)
(*                     Properties of one loop pass                         *)
(***************************************************************************)

\* Whether the entry e of a pass is about the task object o as it was when
\* the pass began.
SameObject(e, o) ==
    /\ e.name = o.name /\ e.kind = o.kind /\ e.channels = o.channels
    /\ e.delay = o.delay /\ e.repeat = o.repeat /\ e.lastRun = o.lastRun

\* C23 (tick snapshot): a loop pass considers exactly the task objects that
\* were in the list when it began, each once and in the order of the list,
\* also when a callback earlier in the pass removed or replaced one of them;
\* a task that a callback adds during the pass (it is built at the time of
\* the pass) is not in the pass, and is considered by the next pass.
C23_TickSnapshot ==
    [][(AnimationFrame /\ running /\ pending = 1) =>
          /\ Len(trace') = Len(tasks)
          /\ \A i \in 1..Len(tasks) :
                /\ SameObject(trace'[i], tasks[i])
                /\ trace'[i].lastRun < clock']_vars

\* C23 witness: in the pass just made, the callback of "a" removed "b", and
\* "b", second in the list when the pass began, was run all the same.
C23_Witness ==
    /\ Len(trace) = 2
    /\ trace[1].name = "a" /\ trace[1].did = "ran"
    /\ trace[2].name = "b" /\ trace[2].did = "ran"
    /\ \A j \in 1..Len(tasks) : tasks[j].name # "b"

\* In the pass just made, the callback of "a" added "b", which was not in the
\* list before: the pass ran "a" only, and "b" is in the list.
C23_AddedNotRun ==
    /\ Len(trace) = 1 /\ trace[1].name = "a" /\ trace[1].did = "ran"
    /\ \E j \in 1..Len(tasks) : tasks[j].name = "b" /\ tasks[j].channels = {"x"}

\* In the pass just made, the callback of "a" replaced "b": the pass ran the
\* old object, and the list holds the new one.
C23_ReplacedStillRun ==
    /\ Len(trace) = 2 /\ trace[1].did = "ran"
    /\ trace[2].name = "b" /\ trace[2].did = "ran" /\ trace[2].channels = {"global"}
    /\ \E j \in 1..Len(tasks) : tasks[j].name = "b" /\ tasks[j].channels = {"x"}

\* The pass just made ran the task that a callback of the pass before had
\* added.
C23_RunNextPass ==
    /\ \E i \in 1..Len(trace) : /\ trace[i].name = "b" /\ trace[i].channels = {"x"}
                                /\ trace[i].did = "ran"

\* C24 (paused tasks are skipped without accounting): a loop pass leaves
\* every task that has a paused channel in the list and as it was (lastRun,
\* remaining, pausedAt, totalPausedTime and all else), and does not call its
\* callback; so an animation whose duration has elapsed stays in the list
\* while paused.
C24_PausedUntouched ==
    [][(AnimationFrame /\ running) =>
          \A i \in 1..Len(tasks) :
             (tasks[i].channels \cap pausedChannels # {}) =>
                /\ \E j \in 1..Len(tasks') : tasks'[j] = tasks[i]
                /\ \A k \in 1..Len(trace') :
                      trace'[k].name = tasks[i].name => trace'[k].did = "skipped"]_vars

\* C24 witness: the pass just made skipped a paused animation whose duration
\* had elapsed, and the animation is in the list.
C24_Witness ==
    \E k \in 1..Len(trace), j \in 1..Len(tasks) :
       /\ trace[k].did = "skipped" /\ trace[k].kind = "anim"
       /\ tasks[j].name = trace[k].name /\ tasks[j].kind = "anim"
       /\ tasks[j].channels \cap pausedChannels # {}
       /\ trace[k].at - tasks[j].animStart - tasks[j].totalPausedTime >= tasks[j].duration

\* The pass just made skipped a paused plain task that was due.
C24_DueSkipped ==
    \E k \in 1..Len(trace) :
       /\ trace[k].did = "skipped" /\ trace[k].kind = "plain"
       /\ trace[k].at - trace[k].lastRun >= trace[k].delay

\* What a pass may leave of a plain task with the finite repeat count
\* e.repeat that it ran: the task has been run repeat - remaining times, at
\* least once and at most repeat times, and after the last of them the list
\* holds it no more.
RanWithinCount(e) ==
    LET runs == e.repeat - e.remaining
    IN /\ 1 <= runs /\ runs <= e.repeat
       /\ runs = e.repeat =>
             \A j \in 1..Len(tasks) :
                ~(tasks[j].name = e.name /\ tasks[j].repeat = e.repeat)
       /\ runs < e.repeat =>
             \E j \in 1..Len(tasks) :
                /\ tasks[j].name = e.name /\ tasks[j].repeat = e.repeat
                /\ tasks[j].remaining = e.remaining

\* Whether no callback of the pass just made took a task off the list: the
\* callbacks that do are those of the tasks "a" with the infinite repeat
\* count.
NoneRemoved ==
    \A k \in 1..Len(trace) :
       ~(trace[k].name = "a" /\ trace[k].repeat = INFINITE /\ trace[k].did = "ran")

\* C25 (finite repeat): a plain task added with a finite repeat count N, for
\* every N >= 0, and neither removed nor replaced, is run N times in all,
\* once in each of N passes, and leaves the list in the pass of its last run.
C25_FiniteRepeat ==
    NoneRemoved =>
       \A k \in 1..Len(trace) :
          (trace[k].did = "ran" /\ trace[k].kind = "plain" /\ trace[k].repeat # INFINITE)
             => RanWithinCount(trace[k])

\* The same for the repeat counts N >= 1.
C25_PositiveRepeat ==
    NoneRemoved =>
       \A k \in 1..Len(trace) :
          (trace[k].did = "ran" /\ trace[k].kind = "plain" /\ trace[k].repeat >= 1)
             => RanWithinCount(trace[k])

\* A task with the infinite repeat count that no callback removes is in the
\* list after every pass.
C25_InfiniteStays ==
    [][(AnimationFrame /\ running) =>
          \A i \in 1..Len(tasks) :
             (tasks[i].repeat = INFINITE /\ tasks[i].name = "a") =>
                \E j \in 1..Len(tasks') : tasks'[j].name = "a"]_vars

\* The pass just made ran, for the second time, a task added with the repeat
\* count 0, and the task is in the list with remaining = -2.
C25_RepeatZeroRuns ==
    \E k \in 1..Len(trace), j \in 1..Len(tasks) :
       /\ trace[k].did = "ran" /\ trace[k].repeat = 0 /\ trace[k].remaining = -2
       /\ tasks[j].name = trace[k].name /\ tasks[j].remaining = -2

\* The pass just made ran a task added with the repeat count 2 for the
\* second time and took it off the list.
C25_SecondRunLast ==
    \E k \in 1..Len(trace) :
       /\ trace[k].did = "ran" /\ trace[k].repeat = 2 /\ trace[k].remaining = 0
       /\ \A j \in 1..Len(tasks) : tasks[j].name # trace[k].name

(***************************************************************************)
(*               Properties of the pause of an animation                   *)
(***************************************************************************)

\* C26 (animation pause accounting): when resume(X), at loop timestamp t2,
\* releases an animation on the one channel X that had been paused since the
\* loop timestamp t1, the animation's totalPausedTime grows by t2 - t1, so
\* that every later run computes elapsed = t - animStart - (t2 - t1) and the
\* animation delivers the values it would have delivered without the pause.
C26_AnimationPauseAccounting ==
    [][\A channel \in Channels :
          TaskScheduler_resume(channel) =>
             \A i \in 1..Len(tasks) :
                ( /\ tasks[i].kind = "anim"
                  /\ tasks[i].channels = {channel}
                  /\ frozenNow[tasks[i].name] # NoTime )
                => /\ tasks'[i].totalPausedTime
                        = tasks[i].totalPausedTime + (now - frozenNow[tasks[i].name])
                   /\ tasks'[i].pausedAt = NoTime]_vars

\* The same for an animation that was notified of its pause once: pausedAt is
\* still the loop timestamp at which the channel was paused.
C26_SinglePause ==
    [][\A channel \in Channels :
          TaskScheduler_resume(channel) =>
             \A i \in 1..Len(tasks) :
                ( /\ tasks[i].kind = "anim"
                  /\ tasks[i].channels = {channel}
                  /\ frozenNow[tasks[i].name] # NoTime
                  /\ tasks[i].pausedAt = frozenNow[tasks[i].name] )
                => /\ tasks'[i].totalPausedTime
                        = tasks[i].totalPausedTime + (now - frozenNow[tasks[i].name])
                   /\ tasks'[i].pausedAt = NoTime]_vars

\* An animation on the one channel "x" is paused, was paused at an earlier
\* loop timestamp than its pausedAt says, and a pass has skipped it since.
C26_PausedTwice ==
    \E i \in 1..Len(tasks) :
       /\ tasks[i].kind = "anim" /\ tasks[i].channels = {"x"} /\ "x" \in pausedChannels
       /\ frozenNow[tasks[i].name] # NoTime
       /\ tasks[i].pausedAt > frozenNow[tasks[i].name]


(***************************************************************************)
(*                   Properties of the pointer events                      *)
(***************************************************************************)

\* The indexes of the enabled units of the list that the point (x, y) hits.
EnabledHit(x, y) == {i \in 1..Len(units) : units[i].enabled /\ hitTest(units[i], x, y)}

\* C27 (drag session targets the pressed unit): a press at s that hits an
\* enabled unit U sets isDragging, dragUnit = U and dragStart = s, and a
\* press that hits none starts no drag; for every press that hit a unit U at
\* s since the last release or leave, a move fires U.onDrag with start s and
\* the move point, and a release fires U.onMouseUp and then U.onDrop with
\* start s and the release point, once each, and clears isDragging, dragUnit
\* and dragStart; without such a press a move or a release fires nothing.
C27_DragSession ==
    [][\A x \in PointerXs :
        /\ MouseDown(x, ClickY) =>
              IF EnabledHit(x, ClickY) = {}
              THEN handled' = << >> /\ UNCHANGED <<isDragging, dragStart, dragUnit>>
              ELSE /\ isDragging'
                   /\ dragStart' = <<x, ClickY>>
                   /\ \E i \in EnabledHit(x, ClickY) : dragUnit' = units[i].name
        /\ MouseMove(x, ClickY) =>
              IF pressed = << >> THEN handled' = << >>
              ELSE \A k \in 1..Len(pressed) :
                      handled' = <<Callback("onDrag", pressed[k].unit, pressed[k].at,
                                            <<x, ClickY>>)>>
        /\ MouseUp(x, ClickY) =>
              IF pressed = << >> THEN handled' = << >>
              ELSE /\ \A k \in 1..Len(pressed) :
                         handled' = <<Callback("onMouseUp", pressed[k].unit, << >>, << >>),
                                      Callback("onDrop", pressed[k].unit, pressed[k].at,
                                               <<x, ClickY>>)>>
                   /\ ~isDragging'
                   /\ dragUnit' = NoUnit
                   /\ dragStart' = << >>]_vars

\* The same for the last press only: the session is the one of the most
\* recent press that hit a unit.
C27_LastPress ==
    [][\A x \in PointerXs :
        /\ MouseDown(x, ClickY) =>
              IF EnabledHit(x, ClickY) = {}
              THEN handled' = << >> /\ UNCHANGED <<isDragging, dragStart, dragUnit>>
              ELSE /\ isDragging'
                   /\ dragStart' = <<x, ClickY>>
                   /\ \E i \in EnabledHit(x, ClickY) : dragUnit' = units[i].name
        /\ MouseMove(x, ClickY) =>
              IF pressed = << >> THEN handled' = << >>
              ELSE handled' = <<Callback("onDrag", pressed[Len(pressed)].unit,
                                         pressed[Len(pressed)].at, <<x, ClickY>>)>>
        /\ MouseUp(x, ClickY) =>
              IF pressed = << >> THEN handled' = << >>
              ELSE /\ handled' = <<Callback("onMouseUp", pressed[Len(pressed)].unit,
                                            << >>, << >>),
                                   Callback("onDrop", pressed[Len(pressed)].unit,
                                            pressed[Len(pressed)].at, <<x, ClickY>>)>>
                   /\ ~isDragging'
                   /\ dragUnit' = NoUnit
                   /\ dragStart' = << >>]_vars

\* A move over another unit than the pressed one called onDrag on the
\* pressed unit.
C27_DraggedOverOther ==
    /\ gestOp.op = "mousemove"
    /\ Len(handled) = 1
    /\ handled[1].cb = "onDrag"
    /\ EnabledHit(gestOp.at[1], gestOp.at[2]) # {}
    /\ \A i \in EnabledHit(gestOp.at[1], gestOp.at[2]) : units[i].name # handled[1].unit

\* A release after two presses on different units called onMouseUp and
\* onDrop on the second unit only.
C27_SecondPressDropped ==
    /\ gestOp.op = "mouseup"
    /\ Len(handled) = 2
    /\ handled[2].cb = "onDrop"
    /\ timerIds = 2
    /\ Len(timers) = 1
    /\ timers[1].id = 1
    /\ timers[1].unit # handled[2].unit


\* C28 (leave-surface resets the dispatcher): a mouseleave leaves no timer
\* pending, isDragging false, dragUnit and dragStart empty, hoveredUnit and
\* lastMousePos empty, and calls onMouseLeave once on the unit that was
\* hovered, if any; a release or a move that follows it without a new press
\* calls no unit callback.
C28_LeaveResets ==
    [][ /\ MouseLeave =>
              /\ timers' = << >>
              /\ ~isDragging'
              /\ dragUnit' = NoUnit
              /\ dragStart' = << >>
              /\ handled' = IF hoveredUnit # NoUnit
                            THEN <<Callback("onMouseLeave", hoveredUnit, << >>, << >>)>>
                            ELSE << >>
              /\ hoveredUnit' = NoUnit
              /\ lastMousePos' = << >>
        /\ \A x \in PointerXs :
              (gestOp.op = "mouseleave" /\ (MouseUp(x, ClickY) \/ MouseMove(x, ClickY)))
                 => handled' = << >>]_vars

\* What the mouseleave does: the same but for dragStart, which keeps the
\* point of the press, and for the timer of a press that was followed by
\* another press: only the timer of the last press is sure to be gone.
C28_LeaveKeepsStart ==
    [][ /\ MouseLeave =>
              /\ \A k \in 1..Len(timers') :
                    pressed # << >> => timers'[k].id # pressed[Len(pressed)].id
              /\ ~isDragging'
              /\ dragUnit' = NoUnit
              /\ dragStart' = dragStart
              /\ handled' = IF hoveredUnit # NoUnit
                            THEN <<Callback("onMouseLeave", hoveredUnit, << >>, << >>)>>
                            ELSE << >>
              /\ hoveredUnit' = NoUnit
              /\ lastMousePos' = << >>
        /\ \A x \in PointerXs :
              (gestOp.op = "mouseleave" /\ (MouseUp(x, ClickY) \/ MouseMove(x, ClickY)))
                 => handled' = << >>]_vars

\* A mouseleave during a drag, with a hovered unit: dragStart is still the
\* point of the press.
C28_StartKept ==
    /\ gestOp.op = "mouseleave"
    /\ Len(handled) = 1
    /\ handled[1].cb = "onMouseLeave"
    /\ ~isDragging
    /\ dragUnit = NoUnit
    /\ dragStart # << >>

\* A release right after a mouseleave that ended a drag called nothing.
C28_ReleaseAfterLeave ==
    /\ gestOp.op = "mouseup"
    /\ handled = << >>
    /\ dragStart # << >>


\* The ids of the presses that no release and no leave has followed yet.
Held == {pressed[k].id : k \in 1..Len(pressed)}

\* C29 (long press): a press that hits an enabled unit U arms a timer for U,
\* due 500 after the press; onLongPress is called on U when the timer is due
\* and no release and no leave has followed the press; it is never called
\* for a press that a release or a leave has followed, whatever the sequence
\* of events, two presses in a row included; and no press has two timers.
C29_LongPress ==
    [][ /\ \A x \in PointerXs :
              (MouseDown(x, ClickY) /\ EnabledHit(x, ClickY) # {}) =>
                 /\ Len(timers') = Len(timers) + 1
                 /\ timers'[Len(timers')].due = clock + LongPressDelay
                 /\ timers'[Len(timers')].unit = dragUnit'
                 /\ \A k \in 1..Len(timers) : timers[k].id # timers'[Len(timers')].id
        /\ \A k \in 1..Len(timers) :
              LongPressFires(k) =>
                 /\ timers[k].id \in Held
                 /\ timers[k].due = clock
                 /\ handled' = <<Callback("onLongPress", timers[k].unit, << >>, << >>)>>
                 /\ \A j \in 1..Len(timers') : timers'[j].id # timers[k].id
        /\ PointerTimePasses => \A k \in 1..Len(timers) : timers[k].due > clock
        /\ \A k \in 1..Len(timers') : timers'[k].id \in Held']_vars

\* The same for the last press before a release or a leave only: its timer
\* is cancelled, and the timer of a press that is still held runs when due.
C29_LastPressCancelled ==
    [][ /\ \A x \in PointerXs :
              (MouseDown(x, ClickY) /\ EnabledHit(x, ClickY) # {}) =>
                 /\ Len(timers') = Len(timers) + 1
                 /\ timers'[Len(timers')].due = clock + LongPressDelay
                 /\ timers'[Len(timers')].unit = dragUnit'
                 /\ \A k \in 1..Len(timers) : timers[k].id # timers'[Len(timers')].id
        /\ \A k \in 1..Len(timers) :
              LongPressFires(k) =>
                 /\ timers[k].due = clock
                 /\ handled' = <<Callback("onLongPress", timers[k].unit, << >>, << >>)>>
                 /\ \A j \in 1..Len(timers') : timers'[j].id # timers[k].id
        /\ PointerTimePasses => \A k \in 1..Len(timers) : timers[k].due > clock
        /\ (pressed # << >> /\ pressed' = << >>) =>
              \A k \in 1..Len(timers') : timers'[k].id # pressed[Len(pressed)].id]_vars

\* onLongPress was called for a press that is still held, 500 after it.
C29_HeldLongPress ==
    /\ gestOp.op = "timeout"
    /\ gestOp.id \in Held
    /\ Len(handled) = 1
    /\ handled[1].cb = "onLongPress"

\* onLongPress was called for a press after the release that followed it.
C29_LongPressAfterRelease ==
    /\ gestOp.op = "timeout"
    /\ pressed = << >>
    /\ ~isDragging
    /\ Len(handled) = 1
    /\ handled[1].cb = "onLongPress"


\* The unit a run of the hover-polling task finds: the last enabled unit of
\* the list that the last pointer position hits, if any.
Topmost ==
    IF lastMousePos = << >> THEN NoUnit
    ELSE IF EnabledHit(lastMousePos[1], lastMousePos[2]) = {} THEN NoUnit
    ELSE units[CHOOSE i \in EnabledHit(lastMousePos[1], lastMousePos[2]) :
                 \A j \in EnabledHit(lastMousePos[1], lastMousePos[2]) : j <= i].name

\* C30 (hover switch): a run of the hover-polling task with a known pointer
\* position, when the topmost enabled unit hit differs from hoveredUnit,
\* calls onMouseLeave on the old unit (if any) and then onHover on the new
\* one (if any), once each and in that order, and makes the new unit
\* hoveredUnit; when it does not differ, or the position is unknown, it
\* calls nothing and leaves hoveredUnit as it is.
C30_HoverSwitch ==
    [][HoverPolling =>
         IF lastMousePos = << >> \/ Topmost = hoveredUnit
         THEN handled' = << >> /\ hoveredUnit' = hoveredUnit
         ELSE /\ handled' =
                   (IF hoveredUnit # NoUnit
                    THEN <<Callback("onMouseLeave", hoveredUnit, << >>, lastMousePos)>>
                    ELSE << >>)
                   \o (IF Topmost # NoUnit
                       THEN <<Callback("onHover", Topmost, << >>, lastMousePos)>>
                       ELSE << >>)
              /\ hoveredUnit' = Topmost]_vars

\* What the run does: the same calls, onHover on the new unit first and
\* onMouseLeave on the old one after it.
C30_HoverThenLeave ==
    [][HoverPolling =>
         IF lastMousePos = << >> \/ Topmost = hoveredUnit
         THEN handled' = << >> /\ hoveredUnit' = hoveredUnit
         ELSE /\ handled' =
                   (IF Topmost # NoUnit
                    THEN <<Callback("onHover", Topmost, << >>, lastMousePos)>>
                    ELSE << >>)
                   \o (IF hoveredUnit # NoUnit
                       THEN <<Callback("onMouseLeave", hoveredUnit, << >>, lastMousePos)>>
                       ELSE << >>)
              /\ hoveredUnit' = Topmost]_vars

\* A run that moved the hover from one unit to another called onHover on
\* the new unit before onMouseLeave on the old one.
C30_HoverBeforeLeave ==
    /\ gestOp.op = "hover-polling"
    /\ Len(handled) = 2
    /\ handled[1].cb = "onHover"
    /\ handled[1].unit = hoveredUnit
    /\ handled[2].cb = "onMouseLeave"
    /\ handled[2].unit # hoveredUnit

\* A run over the hovered unit, below a disabled one, called nothing.
C30_SameUnitQuiet ==
    /\ gestOp.op = "hover-polling"
    /\ handled = << >>
    /\ hoveredUnit = randomName(2)
    /\ Len(units) = 12
    /\ lastMousePos = <<3, ClickY>>


(***************************************************************************)
(*            Properties of set called from inside a listener              *)
(***************************************************************************)

\* The entries of the history between p and q that are of the call at that
\* depth and of that kind.
Between(p, q, depth, ev) ==
    {e \in (p + 1)..(q - 1) : events[e].depth = depth /\ events[e].ev = ev}

\* C31 (re-entrant set is synchronous and depth-first): when a listener Li
\* of key k calls set(k2, w) while set(k, v) notifies, the store holds w for
\* k2 as soon as the call is made, and before Li returns and before the
\* next listener of k is invoked the nested set has called every listener
\* of k2, each has returned, and the nested set has returned.
C31_ReentrantDepthFirst ==
    \A p \in 1..Len(events) :
       (events[p].ev = "set" /\ events[p].depth > 1) =>
          /\ p = Len(events) => DataRead(data, events[p].key) = events[p].value
          /\ \A q \in (p + 1)..Len(events) :
                events[q].depth < events[p].depth =>
                   /\ Between(p, q, events[p].depth, "end") # {}
                   /\ LET e == CHOOSE e \in Between(p, q, events[p].depth, "end") :
                                  \A f \in Between(p, q, events[p].depth, "end") : e <= f
                      IN /\ Cardinality(Between(p, e, events[p].depth, "call")) = events[p].n
                         /\ Cardinality(Between(p, e, events[p].depth, "ret")) = events[p].n
                         /\ \A c \in Between(p, e, events[p].depth, "call") :
                               /\ events[c].key = events[p].key
                               /\ events[c].value = events[p].value

\* A listener of k1 called set("k2", ...), the two listeners of k2 ran, and
\* then the next listener of k1 was invoked.
C31_Witness ==
    \E p \in 1..Len(events) :
       /\ events[p].ev = "set"
       /\ events[p].depth = 2
       /\ events[p].n = 2
       /\ \E q \in (p + 1)..Len(events) :
             /\ events[q].ev = "call"
             /\ events[q].depth = 1
             /\ Cardinality(Between(p, q, 2, "ret")) = 2


\* Whether fn is among the listeners of key.
Listens(key, fn) ==
    \E i \in 1..Len(ListenersOf(listeners, key)) : ListenersOf(listeners, key)[i] = fn

\* A listener of "k1" sets "k2" and a listener of "k2" sets "k1".
Cycle == Listens("k1", "A2B") /\ Listens("k2", "B2A")

\* No key leads back to itself over the listeners that may call set.
NoCycle ==
    /\ ~Cycle
    /\ ~Listens("k1", "Clamp")
    /\ ~(Listens("k2", "Clamp") /\ Listens("k1", "A2B"))

\* C32 (unguarded cycles): with a listener of A that sets B and a listener
\* of B that sets A, a set of either key, and the bindPositionRelativeTo
\* call that closes the cycle, never return: the calls only nest deeper,
\* also when both keys hold the same value already.  Without a cycle in the
\* listener graph every call returns.
C32_UnguardedCycles ==
    /\ [][(Cycle /\ stack # << >>) => (stack' # << >> /\ Len(stack') >= Len(stack))]_vars
    /\ []((Cycle /\ stack # << >>) => lastOp.outcome = "running")
    /\ (NoCycle /\ stack # << >>) ~> (stack = << >> /\ lastOp.outcome = "returned")

\* The second of two bindings in a ring is still running at the greatest
\* depth, with both keys at the same value and one listener call per level.
C32_Witness ==
    /\ Cycle
    /\ lastOp.op = "bind"
    /\ lastOp.outcome = "running"
    /\ Len(stack) = MaxDepth
    /\ Len(calls) = MaxDepth
    /\ "k1" \in DOMAIN data
    /\ "k2" \in DOMAIN data
    /\ data["k1"] = data["k2"]

\* A set of a key whose listener sets the other key returned, no cycle
\* being there.
C32_ChainReturned ==
    /\ ~Cycle
    /\ stack = << >>
    /\ lastOp.op = "set"
    /\ lastOp.outcome = "returned"
    /\ \E e \in 1..Len(events) : events[e].ev = "end" /\ events[e].depth = 2


(***************************************************************************)
(*                    Properties of the loop callbacks                     *)
(***************************************************************************)

\* C33 (single tick loop): whatever the order of start(), stop(), resume()
\* and frames, at most one loop callback waits for the frame source, and a
\* frame evaluates each task at most once.
C33_SingleLoop ==
    /\ pending <= 1
    /\ \A name \in TaskNames : Cardinality({i \in 1..Len(trace) : trace[i].name = name}) <= 1

\* How a second loop callback comes about: start(), or the start() inside
\* resume(), while the scheduler is stopped and the callback requested
\* before the stop() still waits for its frame.
C33_SecondLoopAfterStop ==
    [][(pending <= 1 /\ pending' > 1) =>
          /\ ~running
          /\ running'
          /\ pending = 1
          /\ TaskScheduler_start \/ \E channel \in Channels : TaskScheduler_resume(channel)]_vars

\* Two loop callbacks wait for the next frame while the scheduler runs.
C33_TwoLoops ==
    /\ running
    /\ pending = 2

\* One frame ran the same task twice.
C33_RanTwice ==
    \E i, j \in 1..Len(trace) :
       /\ i < j
       /\ trace[i].name = trace[j].name
       /\ trace[i].at = trace[j].at
       /\ trace[i].did = "ran"
       /\ trace[j].did = "ran"


(***************************************************************************)
(*        Properties of add and remove called from inside a callback       *)
(***************************************************************************)

\* The indexes of the tasks of the list whose callback calls add("b", ...)
\* and which the pass just made ran.
Replacers ==
    {i \in 1..Len(tasks) :
        /\ tasks[i].fn = "addB"
        /\ \E e \in 1..Len(trace') : trace'[e].name = tasks[i].name /\ trace'[e].did = "ran"}

\* Whether the list ts holds the task that the callback "addB" adds at t.
HoldsReplacement(ts, t) ==
    \E j \in 1..Len(ts) :
       ts[j] = ScheduledTask("b", 0, INFINITE, "nop", {"x"}, t)

\* C34 (a replacement task survives the task it replaced): after a callback
\* of a pass has called add("b", ...), the task it added is in the list
\* when the pass is over: nothing has exhausted, removed, stopped or
\* replaced it since, whatever becomes of the task it replaced.
C34_ReplacementSurvives ==
    [][(AnimationFrame /\ running /\ pending = 1 /\ Replacers # {})
          => HoldsReplacement(tasks', clock')]_vars

\* The same when the replaced task does not end its last run in that pass.
C34_SurvivesUnfinished ==
    [][(/\ AnimationFrame /\ running /\ pending = 1 /\ Replacers # {}
        /\ \A i \in 1..Len(tasks) : tasks[i].name = "b" => tasks[i].repeat = INFINITE)
          => HoldsReplacement(tasks', clock')]_vars

\* "b" re-added itself on its only run, and the list holds no "b".
C34_SelfReplacementLost ==
    /\ Len(trace) = 1
    /\ trace[1].name = "b"
    /\ trace[1].did = "ran"
    /\ trace[1].remaining = 0
    /\ tasks = << >>
    /\ running

\* "a" replaced "b", the replaced "b" ran after it from the snapshot and
\* went on, and the list holds the "b" that "a" added.
C34_ReplacementKept ==
    /\ Len(trace) = 2
    /\ trace[1].name = "a"
    /\ trace[2].name = "b"
    /\ trace[2].did = "ran"
    /\ trace[2].channels = {"global"}
    /\ HoldsReplacement(tasks, now)


\* "a" replaced "b", the replaced "b" ran after it from the snapshot for
\* the last time, and the list holds no "b".
C34_LaterReplacementLost ==
    /\ Len(trace) = 2
    /\ trace[1].name = "a"
    /\ trace[1].did = "ran"
    /\ trace[2].name = "b"
    /\ trace[2].did = "ran"
    /\ trace[2].remaining = 0
    /\ Len(tasks) = 1
    /\ tasks[1].name = "a"
    /\ tasks[1].fn = "addB"


(***************************************************************************)
(*              Properties of pauses that overlap or repeat                *)
(***************************************************************************)

\* The indexes of the tasks that resume(channel) releases: a pause had
\* frozen them, they carry the channel, and none of their channels is
\* paused when the call is over.
Released(channel) ==
    {i \in 1..Len(tasks) :
        /\ frozenNow[tasks[i].name] # NoTime
        /\ channel \in tasks[i].channels
        /\ tasks[i].channels \cap (pausedChannels \ {channel}) = {}}

\* C35 (time correction covers the whole frozen interval): when a resume
\* leaves no channel of a task paused any more, the task's lastRun (plain
\* task) or totalPausedTime (animation) is what it was when the first pause
\* froze the task plus the whole time from that pause to this resume, also
\* when the pauses of several channels overlapped and when a channel was
\* paused twice.
C35_WholeFrozenInterval ==
    [][\A channel \in Channels :
          TaskScheduler_resume(channel) =>
             \A i \in Released(channel) :
                TimeBase(tasks'[i])
                   = frozenBase[tasks[i].name] + (now - frozenNow[tasks[i].name])]_vars

\* The same for a task that the releasing resume finds with the pausedAt of
\* the pause that froze it.
C35_OnePauseInterval ==
    [][\A channel \in Channels :
          TaskScheduler_resume(channel) =>
             \A i \in Released(channel) :
                tasks[i].pausedAt = frozenNow[tasks[i].name] =>
                   TimeBase(tasks'[i])
                      = frozenBase[tasks[i].name] + (now - frozenNow[tasks[i].name])]_vars

\* A plain task on two channels was frozen by the pause of one, the other
\* was paused and the first resumed after a later pass, and passes have
\* skipped the task for two units of time.
C35_Overlap ==
    \E i \in 1..Len(tasks) :
       /\ tasks[i].kind = "plain"
       /\ tasks[i].channels = {"global", "x"}
       /\ Cardinality(pausedChannels) = 1
       /\ frozenNow[tasks[i].name] # NoTime
       /\ tasks[i].pausedAt = NoTime
       /\ now - frozenNow[tasks[i].name] >= 2
       /\ tasks[i].lastRun < frozenBase[tasks[i].name] + 2

\* A resume has released an animation with the whole frozen interval added
\* to its totalPausedTime.
C35_AnimationReleased ==
    /\ schedOp.op = "resume"
    /\ pausedChannels = {}
    /\ \E i \in 1..Len(tasks) :
          /\ tasks[i].kind = "anim"
          /\ tasks[i].totalPausedTime >= 1
          /\ tasks[i].pausedAt = NoTime


(***************************************************************************)
(*        Properties of what the listeners of a key were told last         *)
(***************************************************************************)

\* The entries of the history that are calls of the listener fn of key.
CallsOf(key, fn) ==
    {e \in 1..Len(events) :
        events[e].ev = "call" /\ events[e].key = key /\ events[e].fn = fn}

\* Whether the last call of each listener of key in the history handed it
\* the value the store holds for key.
ToldStored(key) ==
    \A fn \in SetCallbacks :
       CallsOf(key, fn) # {} =>
          LET last == CHOOSE e \in CallsOf(key, fn) : \A f \in CallsOf(key, fn) : f <= e
          IN events[last].value = DataRead(data, key)

\* C36 (listeners end up with the stored value): when an outermost
\* set(k, v) has returned, the last argument each listener of k was invoked
\* with is the value the store holds for k, also when a listener of k
\* called set(k, v2) during the notification.
C36_ListenersEndWithStored ==
    (stack = << >> /\ lastOp.op = "set" /\ lastOp.outcome = "returned")
       => ToldStored(lastOp.key)

\* The same when no call of set for k was made during the notification.
C36_StoredWithoutNestedSet ==
    ( /\ stack = << >> /\ lastOp.op = "set" /\ lastOp.outcome = "returned"
      /\ \A e \in 1..Len(events) :
            (events[e].ev = "set" /\ events[e].key = lastOp.key) => events[e].depth = 1 )
       => ToldStored(lastOp.key)

\* set("k1", "one") has returned with the listeners "Clamp" and "L1" of
\* "k1": the store holds "zero", and "L1" was told "zero" and then "one".
C36_ToldOverwritten ==
    /\ stack = << >> /\ lastOp.op = "set" /\ lastOp.outcome = "returned"
    /\ lastOp.key = "k1" /\ lastOp.arg = "one"
    /\ ListenersOf(listeners, "k1") = <<"Clamp", "L1">>
    /\ DataRead(data, "k1") = "zero"
    /\ Cardinality(CallsOf("k1", "L1")) = 2
    /\ ~ToldStored("k1")

\* set("k1", "one") has returned with the listeners "L1" and "Clamp" of
\* "k1", in that order, and every listener was told "zero" last.
C36_ToldClamped ==
    /\ stack = << >> /\ lastOp.op = "set" /\ lastOp.outcome = "returned"
    /\ lastOp.key = "k1" /\ lastOp.arg = "one"
    /\ ListenersOf(listeners, "k1") = <<"L1", "Clamp">>
    /\ DataRead(data, "k1") = "zero"
    /\ ToldStored("k1")


\* C37 (cancellation is immediate): once remove(name) has discarded a task
\* and returned, the task's callback is not invoked again, also when the
\* call is made from the callback of another task of the pass and the
\* discarded task comes later in that pass.
C37_CancelledNotInvoked ==
    [][(AnimationFrame /\ running /\ pending = 1) =>
          \A i, j \in 1..Len(tasks) :
             ( /\ i < j
               /\ tasks[i].fn = "removeB"
               /\ trace'[i].did = "ran"
               /\ tasks[j].name = "b" )
             => trace'[j].did \notin {"ran", "threw"}]_vars

\* A pass invokes only callbacks of tasks that are in the list when it
\* begins: what remove, stop(channel) or stop() discarded between two
\* passes is not invoked again.
C37_DiscardedBetweenPasses ==
    [][(AnimationFrame /\ running) =>
          \A e \in 1..Len(trace') :
             trace'[e].did \in {"ran", "threw"} =>
                \E i \in 1..Len(tasks) :
                   /\ tasks[i].name = trace'[e].name
                   /\ tasks[i].kind = trace'[e].kind
                   /\ tasks[i].channels = trace'[e].channels
                   /\ tasks[i].delay = trace'[e].delay
                   /\ tasks[i].repeat = trace'[e].repeat]_vars

\* The callback of "a" removed "b" in the pass before, and the pass just
\* made ran "a" alone.
C37_RemovedStaysOut ==
    /\ Len(trace) = 1
    /\ trace[1].name = "a" /\ trace[1].did = "ran"
    /\ Len(tasks) = 1
    /\ tasks[1].fn = "removeB"
    /\ now >= 2


(***************************************************************************)
(*                 Properties of the hover callbacks                       *)
(***************************************************************************)

\* Whether the calls cbs, made one after the other with the units of open
\* hovered, call onHover only on a unit that is not hovered and onMouseLeave
\* only on one that is.
RECURSIVE Alternates(_, _)
Alternates(open, cbs) ==
    \/ cbs = << >>
    \/ /\ Head(cbs).cb = "onHover" => Head(cbs).unit \notin open
       /\ Head(cbs).cb = "onMouseLeave" => Head(cbs).unit \in open
       /\ Alternates(HoverOpen(open, <<Head(cbs)>>), Tail(cbs))

\* Whether at most one unit is hovered after each of the calls cbs.
RECURSIVE OneAtATime(_, _)
OneAtATime(open, cbs) ==
    \/ cbs = << >>
    \/ /\ Cardinality(HoverOpen(open, <<Head(cbs)>>)) <= 1
       /\ OneAtATime(HoverOpen(open, <<Head(cbs)>>), Tail(cbs))

\* C38 (hover callbacks alternate): over pointer moves, leaves, runs of
\* the hover-polling task and units enabled, disabled, added and deleted,
\* each unit gets onHover and onMouseLeave in strict alternation beginning
\* with onHover, and at any time at most one unit has an onHover that no
\* onMouseLeave has followed, namely hoveredUnit.
C38_HoverAlternates ==
    /\ [][(HoverPolling \/ MouseLeave) =>
             /\ Alternates(hovering, handled')
             /\ OneAtATime(hovering, handled')]_vars
    /\ [](hovering = {hoveredUnit} \ {NoUnit})

\* The same without the count after each single call: each unit's calls
\* alternate, and between two handlers the one unit left with an onHover
\* is hoveredUnit.
C38_AlternatesPerUnit ==
    /\ [][(HoverPolling \/ MouseLeave) => Alternates(hovering, handled')]_vars
    /\ [](hovering = {hoveredUnit} \ {NoUnit})

\* A run of the task called onMouseLeave on a unit that had been deleted
\* while hovered.
C38_LeaveAfterDelete ==
    /\ gestOp.op = "hover-polling"
    /\ Len(handled) = 1
    /\ handled[1].cb = "onMouseLeave"
    /\ \A i \in 1..Len(units) : units[i].name # handled[1].unit

\* A run of the task moved the hover to the unit below the one that was
\* disabled while hovered.
C38_SwitchAfterDisable ==
    /\ gestOp.op = "hover-polling"
    /\ Len(handled) = 2
    /\ handled[1].cb = "onHover"
    /\ handled[2].cb = "onMouseLeave"
    /\ \E i \in 1..Len(units) : units[i].name = handled[2].unit /\ ~units[i].enabled
    /\ hovering = {handled[1].unit}


(***************************************************************************)
(*                       Properties of Unit.delete                         *)
(***************************************************************************)

\* The list us without its i-th unit.
WithoutUnit(us, i) == SubSeq(us, 1, i - 1) \o SubSeq(us, i + 1, Len(us))

\* C39 (delete removes only its own unit): U.delete() removes U and no
\* other unit from the list; every other unit, one constructed with the
\* same name attribute included, stays, in the same relative order.
C39_DeleteOnlyOwn ==
    [][\A i \in 10..Len(units) :
          Unit_delete(i) => units' = WithoutUnit(units, i)]_vars

\* The same for a unit whose name no other unit of the list has.
C39_DeleteUniqueName ==
    [][\A i \in 10..Len(units) :
          (Unit_delete(i) /\ \A j \in 1..Len(units) : units[j].name = units[i].name => j = i)
             => units' = WithoutUnit(units, i)]_vars

\* The list holds two units constructed with the same name attribute, at
\* different places, and a third with a name of its own.
C39_SameNameTwice ==
    /\ Len(units) = 12
    /\ units[10].name = OverrideName
    /\ units[11].name = randomName(2)
    /\ units[12].name = OverrideName
    /\ units[10].pos # units[12].pos

\* A unit with a name of its own was deleted from between two others, which
\* are both in the list.
C39_OneGone ==
    /\ created = 3
    /\ Len(units) = 11
    /\ units[10].name = randomName(1)
    /\ units[11].name = randomName(3)


(***************************************************************************)
(*            Properties of setupAnchors with anchors deleted              *)
(***************************************************************************)

\* The name of the k-th anchor in row order, k from 0, and the place that
\* setupAnchors gives it on a canvas of that size.
AnchorName(k) == <<"CONTEXT-ANCHOR-UNIT", anchorNames[(k \div 3) + 1][(k % 3) + 1]>>
AnchorPlace(k, size) ==
    [x |-> (size.width * (k % 3)) \div 2, y |-> (size.height * (k \div 3)) \div 2]

\* Whether the k-th anchor is in the list us.
HasAnchor(us, k) == \E i \in 1..Len(us) : us[i].name = AnchorName(k)

\* The pos of the k-th anchor of the list us.
AnchorPos(us, k) == us[CHOOSE i \in 1..Len(us) : us[i].name = AnchorName(k)].pos

\* C40 (anchor republish is all-or-nothing): when a publish of the size
\* makes setupAnchors throw because some anchors were deleted, no anchor's
\* pos and no "<anchor>::pos" entry of the store has changed; when it
\* does not throw, all nine have the place of the new size.
C40_AnchorsAllOrNothing ==
    [][\A size \in AnchorSizes :
          resizeCanvasToMatch(size) =>
             IF sceneOp'.threw
             THEN \A k \in 0..8 :
                     /\ HasAnchor(units, k) => AnchorPos(units', k) = AnchorPos(units, k)
                     /\ data'[<<AnchorName(k), "pos">>] = data[<<AnchorName(k), "pos">>]
             ELSE \A k \in 0..8 :
                     /\ HasAnchor(units', k)
                     /\ AnchorPos(units', k) = AnchorPlace(k, size)
                     /\ data'[<<AnchorName(k), "pos">>] = AnchorPlace(k, size)]_vars

\* What the publish does when it throws: the anchors before the first
\* deleted one, in row order, have the place of the new size, the others
\* and their entries are as they were; and it throws exactly when an anchor
\* is missing and another is not.
C40_UpdatedUpToMissing ==
    [][\A size \in AnchorSizes :
          resizeCanvasToMatch(size) =>
             LET missing == {k \in 0..8 : ~HasAnchor(units, k)}
                 first == CHOOSE k \in missing : \A m \in missing : k <= m
             IN /\ sceneOp'.threw <=> (missing # {} /\ missing # 0..8)
                /\ sceneOp'.threw =>
                      \A k \in 0..8 :
                         IF k < first
                         THEN /\ AnchorPos(units', k) = AnchorPlace(k, size)
                              /\ data'[<<AnchorName(k), "pos">>] = AnchorPlace(k, size)
                         ELSE /\ HasAnchor(units, k) => AnchorPos(units', k) = AnchorPos(units, k)
                              /\ data'[<<AnchorName(k), "pos">>]
                                    = data[<<AnchorName(k), "pos">>]
                /\ ~sceneOp'.threw =>
                      \A k \in 0..8 :
                         /\ HasAnchor(units', k)
                         /\ AnchorPos(units', k) = AnchorPlace(k, size)
                         /\ data'[<<AnchorName(k), "pos">>] = AnchorPlace(k, size)]_vars

\* A publish has thrown with the middle anchor deleted: the first anchors
\* have the place of the new size, the ones after the middle have not.
C40_PartialRepublish ==
    /\ sceneOp.op = "resize"
    /\ sceneOp.threw
    /\ HasAnchor(units, 0)
    /\ ~HasAnchor(units, 4)
    /\ HasAnchor(units, 5)
    /\ AnchorPos(units, 2) = AnchorPlace(2, canvas)
    /\ data[<<AnchorName(2), "pos">>] = AnchorPlace(2, canvas)
    /\ AnchorPos(units, 5) # AnchorPlace(5, canvas)

\* A publish has thrown with the first anchor deleted and has changed the
\* place of none.
C40_NothingRepublished ==
    /\ sceneOp.op = "resize"
    /\ sceneOp.threw
    /\ ~HasAnchor(units, 0)
    /\ \A k \in 1..8 : HasAnchor(units, k) => AnchorPos(units, k) # AnchorPlace(k, canvas)

\* A publish with all nine anchors in the list has placed them all.
C40_AllRepublished ==
    /\ sceneOp.op = "resize"
    /\ ~sceneOp.threw
    /\ canvas = [width |-> 6, height |-> 4]
    /\ \A k \in 0..8 : HasAnchor(units, k) /\ AnchorPos(units, k) = AnchorPlace(k, canvas)

==========================================================================
